---- MODULE Spec2Model ----
(***************************************************************************)
(* Model of the beacon repository's immutable-state stores: the todo       *)
(* server (httpserver-example), the sudoku server (sudoku-example) and the *)
(* pure state algebra (TodoState.Add / TodoState.Merge,                    *)
(* SudokuState.PlaceNumber / SudokuState.Merge) they are built on.         *)
(***************************************************************************)
EXTENDS Integers, Sequences, FiniteSets, TLC

(***************************************************************************)
(* Bounds of the model.                                                    *)
(***************************************************************************)
\* longest record list of the TodoStates the algebraic laws are checked on
MaxLen == 2
\* number of requests the servers accept in one behaviour
MaxRequests == 2

Max(x, y) == IF x >= y THEN x ELSE y

(***************************************************************************)
(* httpserver-example/state.go: Todo, TodoState, Add, Merge.               *)
(***************************************************************************)
\* the payload fields of a Todo (Title, Completed, CreatedAt), two samples
Payloads ==
    { [Title |-> "a", Completed |-> FALSE, CreatedAt |-> 0],
      [Title |-> "b", Completed |-> TRUE, CreatedAt |-> 1] }

\* the record IDs of the sample states
IDs == 1..3

Todo ==
    { [ID |-> i, Title |-> p.Title, Completed |-> p.Completed, CreatedAt |-> p.CreatedAt] :
        i \in IDs, p \in Payloads }

IDsOf(todos) == { todos[i].ID : i \in DOMAIN todos }

RecordsOf(todos) == { todos[i] : i \in DOMAIN todos }

\* no ID occurs twice in the list (the uniqueness the servers maintain)
UniqueIDs(todos) == \A i, j \in DOMAIN todos : i # j => todos[i].ID # todos[j].ID

\* the NextID values of the sample states: a fresh counter and one past every ID
NextIDs == {1, 4}

TodoState ==
    { [Todos |-> t, NextID |-> n] :
        t \in { s \in UNION { [1..k -> Todo] : k \in 0..MaxLen } : UniqueIDs(s) },
        n \in NextIDs }

\* mutant: the counter is not advanced
AddKeepsNextID(s, title, now) ==
    LET newTodo == [ID |-> s.NextID, Title |-> title, Completed |-> FALSE, CreatedAt |-> now]
    IN  [Todos |-> Append(s.Todos, newTodo), NextID |-> s.NextID]

Add(s, title, now) ==
    LET newTodo == [ID |-> s.NextID, Title |-> title, Completed |-> FALSE, CreatedAt |-> now]
    IN  [Todos |-> Append(s.Todos, newTodo), NextID |-> s.NextID + 1]

\* one of Merge's two loops: append every todo whose ID is not in seen
RECURSIVE AppendUnseen(_, _, _)
AppendUnseen(todos, result, seen) ==
    IF todos = <<>>
    THEN [result |-> result, seen |-> seen]
    ELSE LET todo == Head(todos)
         IN  IF todo.ID \notin seen
             THEN AppendUnseen(Tail(todos), Append(result, todo), seen \cup {todo.ID})
             ELSE AppendUnseen(Tail(todos), result, seen)

\* mutant: the maximum is taken as "the next free ID", one too far
MergeNextIDOffByOne(s, other) ==
    LET first == AppendUnseen(s.Todos, <<>>, {})
        second == AppendUnseen(other.Todos, first.result, first.seen)
    IN  [Todos |-> second.result, NextID |-> Max(other.NextID, s.NextID) + 1]

\* mutant: NextID is taken from the receiver, the max forgotten
MergeKeepsOwnNextID(s, other) ==
    LET first == AppendUnseen(s.Todos, <<>>, {})
        second == AppendUnseen(other.Todos, first.result, first.seen)
    IN  [Todos |-> second.result, NextID |-> s.NextID]

\* mutant: the second loop is missing, other's todos are never added
MergeLeftOnly(s, other) ==
    LET first == AppendUnseen(s.Todos, <<>>, {})
    IN  [Todos |-> first.result, NextID |-> Max(other.NextID, s.NextID)]

\* mutant: the second loop appends without looking at seen
MergeNoDedup(s, other) ==
    LET first == AppendUnseen(s.Todos, <<>>, {})
    IN  [Todos |-> first.result \o other.Todos, NextID |-> Max(other.NextID, s.NextID)]

\* mutant: other's todos are added first, so other wins an ID collision
MergeOtherFirst(s, other) ==
    LET first == AppendUnseen(other.Todos, <<>>, {})
        second == AppendUnseen(s.Todos, first.result, first.seen)
    IN  [Todos |-> second.result, NextID |-> Max(other.NextID, s.NextID)]

\* mutant: the second loop starts from an empty seen map
MergeSeenReset(s, other) ==
    LET first == AppendUnseen(s.Todos, <<>>, {})
        second == AppendUnseen(other.Todos, first.result, {})
    IN  [Todos |-> second.result, NextID |-> Max(other.NextID, s.NextID)]

\* mutant: NextID is the smaller of the two counters
MergeNextIDMin(s, other) ==
    LET first == AppendUnseen(s.Todos, <<>>, {})
        second == AppendUnseen(other.Todos, first.result, first.seen)
    IN  [Todos |-> second.result,
         NextID |-> IF other.NextID <= s.NextID THEN other.NextID ELSE s.NextID]

Merge(s, other) ==
    LET first == AppendUnseen(s.Todos, <<>>, {})
        second == AppendUnseen(other.Todos, first.result, first.seen)
        maxID == Max(other.NextID, s.NextID)
    IN  [Todos |-> second.result, NextID |-> maxID]

(***************************************************************************)
(* sudoku-example: SudokuState, PlaceNumber, Merge.                        *)
(***************************************************************************)
\* the board is Board [9][9]int, indexed 0..8
BoardSize == 9

Cells == 0..(BoardSize - 1)

EmptyBoard == [row \in Cells |-> [col \in Cells |-> 0]]

\* mutant: the check for an already filled cell is missing
PlaceNumberOverwrites(s, row, col, num) ==
    IF row < 0 \/ row > 8 \/ col < 0 \/ col > 8
    THEN s
    ELSE IF num < 0 \/ num > 9
    THEN s
    ELSE [Board |-> [s.Board EXCEPT ![row][col] = num]]

\* mutant: row and col are swapped in the assignment
PlaceNumberTransposed(s, row, col, num) ==
    IF row < 0 \/ row > 8 \/ col < 0 \/ col > 8
    THEN s
    ELSE IF num < 0 \/ num > 9
    THEN s
    ELSE IF s.Board[row][col] # 0
    THEN s
    ELSE [Board |-> [s.Board EXCEPT ![col][row] = num]]

PlaceNumber(s, row, col, num) ==
    IF row < 0 \/ row > 8 \/ col < 0 \/ col > 8
    THEN s
    ELSE IF num < 0 \/ num > 9
    THEN s
    ELSE IF s.Board[row][col] # 0
    THEN s
    ELSE [Board |-> [s.Board EXCEPT ![row][col] = num]]

\* mutant: on a conflict the receiver's value is kept
SudokuMergeKeepsOwn(s, other) ==
    [Board |->
        [row \in Cells |-> [col \in Cells |->
            IF s.Board[row][col] = 0 /\ other.Board[row][col] # 0
            THEN other.Board[row][col]
            ELSE s.Board[row][col]]]]

\* mutant: the branch that keeps the receiver's value is missing, other's
\* cell is taken even when it is empty
SudokuMergeTakesOther(s, other) ==
    [Board |->
        [row \in Cells |-> [col \in Cells |->
            IF s.Board[row][col] = other.Board[row][col]
            THEN s.Board[row][col]
            ELSE other.Board[row][col]]]]

\* mutant: a conflict is flagged by emptying the cell
SudokuMergeClearsConflict(s, other) ==
    [Board |->
        [row \in Cells |-> [col \in Cells |->
            IF s.Board[row][col] = 0 /\ other.Board[row][col] # 0
            THEN other.Board[row][col]
            ELSE IF s.Board[row][col] # 0 /\ other.Board[row][col] = 0
            THEN s.Board[row][col]
            ELSE IF s.Board[row][col] = other.Board[row][col]
            THEN s.Board[row][col]
            ELSE 0]]]

\* mutant: the branch that takes other's value is missing
SudokuMergeOwnOnly(s, other) ==
    [Board |-> [row \in Cells |-> [col \in Cells |-> s.Board[row][col]]]]

\* mutant: a value is kept only where both boards hold it
SudokuMergeIntersects(s, other) ==
    [Board |->
        [row \in Cells |-> [col \in Cells |->
            IF s.Board[row][col] = other.Board[row][col]
            THEN s.Board[row][col]
            ELSE 0]]]

\* mutant: the first branch reads other.Board[row][0] instead of
\* other.Board[row][col]
SudokuMergeReadsColumnZero(s, other) ==
    [Board |->
        [row \in Cells |-> [col \in Cells |->
            IF s.Board[row][col] = 0 /\ other.Board[row][0] # 0
            THEN other.Board[row][0]
            ELSE IF s.Board[row][col] # 0 /\ other.Board[row][col] = 0
            THEN s.Board[row][col]
            ELSE IF s.Board[row][col] = other.Board[row][col]
            THEN s.Board[row][col]
            ELSE other.Board[row][col]]]]

SudokuMerge(s, other) ==
    [Board |->
        [row \in Cells |-> [col \in Cells |->
            IF s.Board[row][col] = 0 /\ other.Board[row][col] # 0
            THEN other.Board[row][col]
            ELSE IF s.Board[row][col] # 0 /\ other.Board[row][col] = 0
            THEN s.Board[row][col]
            ELSE IF s.Board[row][col] = other.Board[row][col]
            THEN s.Board[row][col]
            ELSE other.Board[row][col]]]]

(***************************************************************************)
(* The JSON boundary of the two servers: a request is a method and a body, *)
(* a body is text that fails to decode or a JSON object.                   *)
(***************************************************************************)
Malformed == [ok |-> FALSE]

\* json.NewEncoder(w).Encode(state) of a TodoState: Todo carries json tags
EncodeTodoState(s) ==
    [ ok |-> TRUE,
      Todos |-> [i \in DOMAIN s.Todos |->
                    [ id |-> s.Todos[i].ID, title |-> s.Todos[i].Title,
                      completed |-> s.Todos[i].Completed,
                      created_at |-> s.Todos[i].CreatedAt ]],
      NextID |-> s.NextID ]

\* json.NewDecoder(r.Body).Decode(&incomingState) into a TodoState
DecodeTodoState(body) ==
    IF ~body.ok
    THEN [err |-> TRUE]
    ELSE [ err |-> FALSE,
           val |-> [ Todos |-> [i \in DOMAIN body.Todos |->
                                   [ ID |-> body.Todos[i].id, Title |-> body.Todos[i].title,
                                     Completed |-> body.Todos[i].completed,
                                     CreatedAt |-> body.Todos[i].created_at ]],
                     NextID |-> body.NextID ] ]

\* the "board" member of the sudoku server's export
EncodeSudokuState(s) == [ok |-> TRUE, board |-> s.Board]

\* Decode(&incomingState) into a SudokuState: "board" matches the field Board
DecodeSudokuState(body) ==
    IF ~body.ok THEN [err |-> TRUE] ELSE [err |-> FALSE, val |-> [Board |-> body.board]]

\* Decode(&req) of /add: {"title": ...}
DecodeAdd(body) ==
    IF ~body.ok THEN [err |-> TRUE] ELSE [err |-> FALSE, Title |-> body.title]

\* Decode(&req) of /place: {"row": .., "col": .., "num": ..}
DecodePlace(body) ==
    IF ~body.ok
    THEN [err |-> TRUE]
    ELSE [err |-> FALSE, Row |-> body.row, Col |-> body.col, Num |-> body.num]

(***************************************************************************)
(* The requests the environment sends.                                     *)
(***************************************************************************)
Methods == {"GET", "POST"}

Titles == {"a", "b"}

AddBodies == {Malformed} \cup { [ok |-> TRUE, title |-> t] : t \in Titles \cup {""} }

\* states another replica exports: a fresh one, one that issued ID 1 itself
\* and one that issued ID 2
IncomingTodoStates ==
    { [Todos |-> <<>>, NextID |-> 1],
      [Todos |-> << [ID |-> 1, Title |-> "b", Completed |-> TRUE, CreatedAt |-> 1] >>,
       NextID |-> 2],
      [Todos |-> << [ID |-> 2, Title |-> "a", Completed |-> FALSE, CreatedAt |-> 0] >>,
       NextID |-> 3] }

TodoMergeBodies == {Malformed} \cup { EncodeTodoState(s) : s \in IncomingTodoStates }

\* two values for one cell, a second cell, a position off the board, a
\* number out of range and the number 0
PlaceBodies ==
    {Malformed} \cup
    { [ok |-> TRUE, row |-> a[1], col |-> a[2], num |-> a[3]] :
        a \in { <<0, 0, 5>>, <<0, 0, 7>>, <<0, 1, 5>>, <<9, 0, 5>>, <<0, 1, 10>>, <<1, 1, 0>> } }

\* boards a /merge request carries: what another replica exports, and a
\* board with a cell outside 0..9, which the decoder takes as any other int
IncomingBoards ==
    { EmptyBoard,
      [EmptyBoard EXCEPT ![0][0] = 5],
      [EmptyBoard EXCEPT ![0][0] = 7, ![1][1] = 12] }

SudokuMergeBodies ==
    {Malformed} \cup { EncodeSudokuState([Board |-> b]) : b \in IncomingBoards }

(***************************************************************************)
(* sync.RWMutex: the goroutines holding the read lock and the one holding  *)
(* the write lock (0: none).                                               *)
(***************************************************************************)
\* net/http serves every request in a goroutine of its own: goroutine p
\* serves the p-th request accepted
Procs == 1..MaxRequests

Unlocked == [readers |-> {}, writer |-> 0]

CanRLock(m) == m.writer = 0

\* mutant: Lock does not wait for the readers to leave
CanLockDespiteReaders(m) == m.writer = 0

CanLock(m) == m.writer = 0 /\ m.readers = {}

RLock(m, p) == [m EXCEPT !.readers = @ \cup {p}]

RUnlock(m, p) == [m EXCEPT !.readers = @ \ {p}]

Lock(m, p) == [m EXCEPT !.writer = p]

Unlock(m, p) == [m EXCEPT !.writer = 0]

Holds(m, p) == p \in m.readers \/ m.writer = p

(***************************************************************************)
(* State of the law tests: the operands and the results of the operation   *)
(* under test.                                                             *)
(***************************************************************************)
VARIABLES opA, opB, opC, res

lawVars == <<opA, opB, opC, res>>

(***************************************************************************)
(* State of the two servers and of the goroutines serving requests.        *)
(***************************************************************************)
VARIABLES
    state,              \* todo Server.state: the current TodoState
    RWMutex,            \* todo Server.RWMutex
    requestsProcessed,  \* todo Server.metrics.RequestsProcessed
    sudoku,             \* sudoku Server.state: the current SudokuState
    stateMu,            \* sudoku Server.stateMu
    pc,                 \* where each goroutine is in its handler
    local,              \* each handler's local variables
    resp,               \* the response of each goroutine's last request
    history,            \* the stores (and handler panics) so far, in order
    accepted,           \* number of requests accepted so far
    clock               \* the wall clock time.Now() reads

serverVars ==
    <<state, RWMutex, requestsProcessed, sudoku, stateMu, pc, local, resp, history, accepted,
      clock>>

None == [none |-> TRUE]

\* handler: the route the goroutine serves; rlocks, wlocks: how often it has
\* called RLock and Lock; the rest are the handler's Go variables
NoLocal ==
    [ handler |-> "", rlocks |-> 0, wlocks |-> 0,
      title |-> "", place |-> None, incomingState |-> None, currentState |-> None,
      newState |-> None, todos |-> None, nextID |-> 0 ]

\* the locals of a goroutine that enters handler h
Serve(h) == [NoLocal EXCEPT !.handler = h]

\* the locals of a goroutine whose handler has returned
Returned(l) == [NoLocal EXCEPT !.handler = l.handler, !.rlocks = l.rlocks, !.wlocks = l.wlocks]

\* no response written yet
Pending == [status |-> 0]

\* http.Error(w, ..., code)
HttpError(code) == [status |-> code]

\* net/http recovers a handler's panic and drops the connection
Aborted == [status |-> -1]

\* NewServer() of the todo server
NewServer == [Todos |-> <<>>, NextID |-> 1]

\* NewServer(version) of the sudoku server: the zero SudokuState
NewSudokuServer == [Board |-> EmptyBoard]

ServerInit ==
    /\ state = NewServer
    /\ RWMutex = Unlocked
    /\ requestsProcessed = 0
    /\ sudoku = NewSudokuServer
    /\ stateMu = Unlocked
    /\ pc = [p \in Procs |-> "idle"]
    /\ local = [p \in Procs |-> NoLocal]
    /\ resp = [p \in Procs |-> Pending]
    /\ history = <<>>
    /\ accepted = 0
    /\ clock = 0

todoVars == <<state, RWMutex, requestsProcessed>>

sudokuVars == <<sudoku, stateMu>>

\* net/http starts a goroutine for a request
Accept(p) ==
    /\ pc[p] = "idle"
    /\ p = accepted + 1
    /\ accepted' = accepted + 1

\* the handler returns: w holds the response
Return(p, r) ==
    /\ pc' = [pc EXCEPT ![p] = "done"]
    /\ local' = [local EXCEPT ![p] = Returned(local[p])]
    /\ resp' = [resp EXCEPT ![p] = r]
    /\ UNCHANGED lawVars

\* handler h answers with an error before it does anything else
Reject(p, h, r) ==
    /\ pc' = [pc EXCEPT ![p] = "done"]
    /\ local' = [local EXCEPT ![p] = Serve(h)]
    /\ resp' = [resp EXCEPT ![p] = r]
    /\ UNCHANGED lawVars

\* the goroutine moves on to its next statement
Goto(p, label) ==
    /\ pc' = [pc EXCEPT ![p] = label]
    /\ UNCHANGED lawVars

Commit(srv, p, snap) == history' = Append(history, [ev |-> "store", srv |-> srv, p |-> p, snap |-> snap])

(***************************************************************************)
(* Todo server: HandleAdd and ProcessRequest.                              *)
(***************************************************************************)
HandleAdd(p, method, body) ==
    /\ Accept(p)
    /\ LET req == DecodeAdd(body) IN
        IF method # "POST"
        THEN Reject(p, "HandleAdd", HttpError(405))
        ELSE IF req.err
        THEN Reject(p, "HandleAdd", HttpError(400))
        ELSE IF req.Title = ""
        THEN Reject(p, "HandleAdd", HttpError(400))
        ELSE /\ Goto(p, "ProcessRequest")
             /\ local' = [local EXCEPT ![p] = [Serve("HandleAdd") EXCEPT !.title = req.Title]]
             /\ resp' = [resp EXCEPT ![p] = Pending]
    /\ UNCHANGED <<todoVars, sudokuVars, history, clock>>

ProcessRequestRLock(p) ==
    /\ pc[p] = "ProcessRequest"
    /\ CanRLock(RWMutex)
    /\ RWMutex' = RLock(RWMutex, p)
    /\ local' = [local EXCEPT ![p].rlocks = @ + 1]
    /\ Goto(p, "ProcessRequest_read")
    /\ UNCHANGED <<state, requestsProcessed, sudokuVars, resp, history, accepted, clock>>

\* mutant: the RUnlock is left out (or deferred), Add runs under the read lock
ProcessRequestReadKeepsLock(p) ==
    /\ pc[p] = "ProcessRequest_read"
    /\ local' = [local EXCEPT ![p].currentState = state]
    /\ Goto(p, "ProcessRequest_Add")
    /\ UNCHANGED <<todoVars, sudokuVars, resp, history, accepted, clock>>

ProcessRequestRead(p) ==
    /\ pc[p] = "ProcessRequest_read"
    /\ local' = [local EXCEPT ![p].currentState = state]
    /\ Goto(p, "ProcessRequest_RUnlock")
    /\ UNCHANGED <<todoVars, sudokuVars, resp, history, accepted, clock>>

ProcessRequestRUnlock(p) ==
    /\ pc[p] = "ProcessRequest_RUnlock"
    /\ RWMutex' = RUnlock(RWMutex, p)
    /\ Goto(p, "ProcessRequest_Add")
    /\ UNCHANGED <<state, requestsProcessed, sudokuVars, local, resp, history, accepted, clock>>

ProcessRequestAdd(p) ==
    /\ pc[p] = "ProcessRequest_Add"
    /\ local' = [local EXCEPT ![p].newState = Add(local[p].currentState, local[p].title, clock)]
    /\ clock' = clock + 1
    /\ Goto(p, "ProcessRequest_Lock")
    /\ UNCHANGED <<todoVars, sudokuVars, resp, history, accepted>>

ProcessRequestLock(p) ==
    /\ pc[p] = "ProcessRequest_Lock"
    /\ CanLock(RWMutex)
    /\ RWMutex' = Lock(RWMutex, p)
    /\ local' = [local EXCEPT ![p].wlocks = @ + 1]
    /\ Goto(p, "ProcessRequest_store")
    /\ UNCHANGED <<state, requestsProcessed, sudokuVars, resp, history, accepted, clock>>

ProcessRequestStore(p) ==
    /\ pc[p] = "ProcessRequest_store"
    /\ state' = local[p].newState
    /\ Commit("todo", p, local[p].newState)
    /\ Goto(p, "ProcessRequest_Unlock")
    /\ UNCHANGED <<RWMutex, requestsProcessed, sudokuVars, local, resp, accepted, clock>>

ProcessRequestUnlock(p) ==
    /\ pc[p] = "ProcessRequest_Unlock"
    /\ RWMutex' = Unlock(RWMutex, p)
    /\ Goto(p, "ProcessRequest_metrics")
    /\ UNCHANGED <<state, requestsProcessed, sudokuVars, local, resp, history, accepted, clock>>

\* RequestsProcessed.Add(1), return newState; HandleAdd writes the response
ProcessRequestReturn(p) ==
    /\ pc[p] = "ProcessRequest_metrics"
    /\ requestsProcessed' = requestsProcessed + 1
    /\ LET newState == local[p].newState IN
          Return(p, [ status |-> 200, success |-> TRUE,
                      todo |-> newState.Todos[Len(newState.Todos)],
                      count |-> Len(newState.Todos) ])
    /\ UNCHANGED <<state, RWMutex, sudokuVars, history, accepted, clock>>

(***************************************************************************)
(* Todo server: HandleMerge.                                               *)
(***************************************************************************)
\* mutant: the return after the failed Decode is missing, the handler goes
\* on with the zero incomingState
HandleMergeIgnoresDecodeError(p, method, body) ==
    /\ Accept(p)
    /\ LET incoming == DecodeTodoState(body) IN
        IF method # "POST"
        THEN Reject(p, "HandleMerge", HttpError(405))
        ELSE /\ Goto(p, "HandleMerge")
             /\ local' = [local EXCEPT ![p] =
                    [Serve("HandleMerge") EXCEPT !.incomingState =
                        IF incoming.err THEN [Todos |-> <<>>, NextID |-> 0] ELSE incoming.val]]
             /\ resp' = [resp EXCEPT ![p] = IF incoming.err THEN HttpError(400) ELSE Pending]
    /\ UNCHANGED <<todoVars, sudokuVars, history, clock>>

HandleMerge(p, method, body) ==
    /\ Accept(p)
    /\ LET incoming == DecodeTodoState(body) IN
        IF method # "POST"
        THEN Reject(p, "HandleMerge", HttpError(405))
        ELSE IF incoming.err
        THEN Reject(p, "HandleMerge", HttpError(400))
        ELSE /\ Goto(p, "HandleMerge")
             /\ local' = [local EXCEPT ![p] = [Serve("HandleMerge") EXCEPT !.incomingState = incoming.val]]
             /\ resp' = [resp EXCEPT ![p] = Pending]
    /\ UNCHANGED <<todoVars, sudokuVars, history, clock>>

HandleMergeRLock(p) ==
    /\ pc[p] = "HandleMerge"
    /\ CanRLock(RWMutex)
    /\ RWMutex' = RLock(RWMutex, p)
    /\ local' = [local EXCEPT ![p].rlocks = @ + 1]
    /\ Goto(p, "HandleMerge_read")
    /\ UNCHANGED <<state, requestsProcessed, sudokuVars, resp, history, accepted, clock>>

HandleMergeRead(p) ==
    /\ pc[p] = "HandleMerge_read"
    /\ local' = [local EXCEPT ![p].currentState = state]
    /\ Goto(p, "HandleMerge_RUnlock")
    /\ UNCHANGED <<todoVars, sudokuVars, resp, history, accepted, clock>>

HandleMergeRUnlock(p) ==
    /\ pc[p] = "HandleMerge_RUnlock"
    /\ RWMutex' = RUnlock(RWMutex, p)
    /\ Goto(p, "HandleMerge_Merge")
    /\ UNCHANGED <<state, requestsProcessed, sudokuVars, local, resp, history, accepted, clock>>

HandleMergeMerge(p) ==
    /\ pc[p] = "HandleMerge_Merge"
    /\ local' = [local EXCEPT ![p].newState = Merge(local[p].currentState, local[p].incomingState)]
    /\ Goto(p, "HandleMerge_Lock")
    /\ UNCHANGED <<todoVars, sudokuVars, resp, history, accepted, clock>>

HandleMergeLock(p) ==
    /\ pc[p] = "HandleMerge_Lock"
    /\ CanLock(RWMutex)
    /\ RWMutex' = Lock(RWMutex, p)
    /\ local' = [local EXCEPT ![p].wlocks = @ + 1]
    /\ Goto(p, "HandleMerge_store")
    /\ UNCHANGED <<state, requestsProcessed, sudokuVars, resp, history, accepted, clock>>

HandleMergeStore(p) ==
    /\ pc[p] = "HandleMerge_store"
    /\ state' = local[p].newState
    /\ Commit("todo", p, local[p].newState)
    /\ Goto(p, "HandleMerge_Unlock")
    /\ UNCHANGED <<RWMutex, requestsProcessed, sudokuVars, local, resp, accepted, clock>>

\* s.Unlock(), then the response is written
HandleMergeUnlock(p) ==
    /\ pc[p] = "HandleMerge_Unlock"
    /\ RWMutex' = Unlock(RWMutex, p)
    /\ Return(p, [ status |-> 200, success |-> TRUE,
                   todo_count |-> Len(local[p].newState.Todos),
                   next_id |-> local[p].newState.NextID,
                   merged |-> Len(local[p].incomingState.Todos) ])
    /\ UNCHANGED <<state, requestsProcessed, sudokuVars, history, accepted, clock>>

(***************************************************************************)
(* Todo server: the readers HandleRoot and HandleExport.                   *)
(***************************************************************************)
HandleRoot(p) ==
    /\ Accept(p)
    /\ Goto(p, "HandleRoot")
    /\ local' = [local EXCEPT ![p] = Serve("HandleRoot")]
    /\ resp' = [resp EXCEPT ![p] = Pending]
    /\ UNCHANGED <<todoVars, sudokuVars, history, clock>>

HandleRootRLock(p) ==
    /\ pc[p] = "HandleRoot"
    /\ CanRLock(RWMutex)
    /\ RWMutex' = RLock(RWMutex, p)
    /\ local' = [local EXCEPT ![p].rlocks = @ + 1]
    /\ Goto(p, "HandleRoot_todos")
    /\ UNCHANGED <<state, requestsProcessed, sudokuVars, resp, history, accepted, clock>>

HandleRootReadTodos(p) ==
    /\ pc[p] = "HandleRoot_todos"
    /\ local' = [local EXCEPT ![p].todos = state.Todos]
    /\ Goto(p, "HandleRoot_nextID")
    /\ UNCHANGED <<todoVars, sudokuVars, resp, history, accepted, clock>>

HandleRootReadNextID(p) ==
    /\ pc[p] = "HandleRoot_nextID"
    /\ local' = [local EXCEPT ![p].nextID = state.NextID]
    /\ Goto(p, "HandleRoot_RUnlock")
    /\ UNCHANGED <<todoVars, sudokuVars, resp, history, accepted, clock>>

\* s.RUnlock(), then the response is written
HandleRootRUnlock(p) ==
    /\ pc[p] = "HandleRoot_RUnlock"
    /\ RWMutex' = RUnlock(RWMutex, p)
    /\ Return(p, [ status |-> 200, todos |-> local[p].todos,
                   count |-> Len(local[p].todos), next_id |-> local[p].nextID ])
    /\ UNCHANGED <<state, requestsProcessed, sudokuVars, history, accepted, clock>>

HandleExport(p) ==
    /\ Accept(p)
    /\ Goto(p, "HandleExport")
    /\ local' = [local EXCEPT ![p] = Serve("HandleExport")]
    /\ resp' = [resp EXCEPT ![p] = Pending]
    /\ UNCHANGED <<todoVars, sudokuVars, history, clock>>

HandleExportRLock(p) ==
    /\ pc[p] = "HandleExport"
    /\ CanRLock(RWMutex)
    /\ RWMutex' = RLock(RWMutex, p)
    /\ local' = [local EXCEPT ![p].rlocks = @ + 1]
    /\ Goto(p, "HandleExport_read")
    /\ UNCHANGED <<state, requestsProcessed, sudokuVars, resp, history, accepted, clock>>

HandleExportRead(p) ==
    /\ pc[p] = "HandleExport_read"
    /\ local' = [local EXCEPT ![p].currentState = state]
    /\ Goto(p, "HandleExport_RUnlock")
    /\ UNCHANGED <<todoVars, sudokuVars, resp, history, accepted, clock>>

\* s.RUnlock(), then the state is encoded into the response
HandleExportRUnlock(p) ==
    /\ pc[p] = "HandleExport_RUnlock"
    /\ RWMutex' = RUnlock(RWMutex, p)
    /\ Return(p, [status |-> 200, body |-> EncodeTodoState(local[p].currentState)])
    /\ UNCHANGED <<state, requestsProcessed, sudokuVars, history, accepted, clock>>

(***************************************************************************)
(* Sudoku server: HandlePlace.                                             *)
(***************************************************************************)
HandlePlace(p, method, body) ==
    /\ Accept(p)
    /\ LET req == DecodePlace(body) IN
        IF method # "POST"
        THEN Reject(p, "HandlePlace", HttpError(405))
        ELSE IF req.err
        THEN Reject(p, "HandlePlace", HttpError(400))
        ELSE /\ Goto(p, "HandlePlace")
             /\ local' = [local EXCEPT ![p] =
                    [Serve("HandlePlace") EXCEPT !.place = [Row |-> req.Row, Col |-> req.Col, Num |-> req.Num]]]
             /\ resp' = [resp EXCEPT ![p] = Pending]
    /\ UNCHANGED <<todoVars, sudokuVars, history, clock>>

HandlePlaceRLock(p) ==
    /\ pc[p] = "HandlePlace"
    /\ CanRLock(stateMu)
    /\ stateMu' = RLock(stateMu, p)
    /\ local' = [local EXCEPT ![p].rlocks = @ + 1]
    /\ Goto(p, "HandlePlace_read")
    /\ UNCHANGED <<todoVars, sudoku, resp, history, accepted, clock>>

HandlePlaceRead(p) ==
    /\ pc[p] = "HandlePlace_read"
    /\ local' = [local EXCEPT ![p].currentState = sudoku]
    /\ Goto(p, "HandlePlace_RUnlock")
    /\ UNCHANGED <<todoVars, sudokuVars, resp, history, accepted, clock>>

HandlePlaceRUnlock(p) ==
    /\ pc[p] = "HandlePlace_RUnlock"
    /\ stateMu' = RUnlock(stateMu, p)
    /\ Goto(p, "HandlePlace_PlaceNumber")
    /\ UNCHANGED <<todoVars, sudoku, local, resp, history, accepted, clock>>

HandlePlacePlaceNumber(p) ==
    /\ pc[p] = "HandlePlace_PlaceNumber"
    /\ local' = [local EXCEPT ![p].newState = PlaceNumber(local[p].currentState, local[p].place.Row, local[p].place.Col, local[p].place.Num)]
    /\ Goto(p, "HandlePlace_Lock")
    /\ UNCHANGED <<todoVars, sudokuVars, resp, history, accepted, clock>>

HandlePlaceLock(p) ==
    /\ pc[p] = "HandlePlace_Lock"
    /\ CanLock(stateMu)
    /\ stateMu' = Lock(stateMu, p)
    /\ local' = [local EXCEPT ![p].wlocks = @ + 1]
    /\ Goto(p, "HandlePlace_store")
    /\ UNCHANGED <<todoVars, sudoku, resp, history, accepted, clock>>

HandlePlaceStore(p) ==
    /\ pc[p] = "HandlePlace_store"
    /\ sudoku' = local[p].newState
    /\ Commit("sudoku", p, local[p].newState)
    /\ Goto(p, "HandlePlace_Unlock")
    /\ UNCHANGED <<todoVars, stateMu, local, resp, accepted, clock>>

\* s.stateMu.Unlock(), then the response is written
HandlePlaceUnlock(p) ==
    /\ pc[p] = "HandlePlace_Unlock"
    /\ stateMu' = Unlock(stateMu, p)
    /\ Return(p, [status |-> 200, success |-> TRUE, board |-> local[p].newState.Board])
    /\ UNCHANGED <<todoVars, sudoku, history, accepted, clock>>

(***************************************************************************)
(* Sudoku server: HandleMerge.                                             *)
(***************************************************************************)
SudokuHandleMerge(p, method, body) ==
    /\ Accept(p)
    /\ LET incoming == DecodeSudokuState(body) IN
        IF method # "POST"
        THEN Reject(p, "SudokuHandleMerge", HttpError(405))
        ELSE IF incoming.err
        THEN Reject(p, "SudokuHandleMerge", HttpError(400))
        ELSE /\ Goto(p, "SudokuHandleMerge")
             /\ local' = [local EXCEPT ![p] = [Serve("SudokuHandleMerge") EXCEPT !.incomingState = incoming.val]]
             /\ resp' = [resp EXCEPT ![p] = Pending]
    /\ UNCHANGED <<todoVars, sudokuVars, history, clock>>

SudokuHandleMergeRLock(p) ==
    /\ pc[p] = "SudokuHandleMerge"
    /\ CanRLock(stateMu)
    /\ stateMu' = RLock(stateMu, p)
    /\ local' = [local EXCEPT ![p].rlocks = @ + 1]
    /\ Goto(p, "SudokuHandleMerge_read")
    /\ UNCHANGED <<todoVars, sudoku, resp, history, accepted, clock>>

\* mutant: the RUnlock is left out (or deferred), Merge runs under the read lock
SudokuHandleMergeReadKeepsLock(p) ==
    /\ pc[p] = "SudokuHandleMerge_read"
    /\ local' = [local EXCEPT ![p].currentState = sudoku]
    /\ Goto(p, "SudokuHandleMerge_Merge")
    /\ UNCHANGED <<todoVars, sudokuVars, resp, history, accepted, clock>>

SudokuHandleMergeRead(p) ==
    /\ pc[p] = "SudokuHandleMerge_read"
    /\ local' = [local EXCEPT ![p].currentState = sudoku]
    /\ Goto(p, "SudokuHandleMerge_RUnlock")
    /\ UNCHANGED <<todoVars, sudokuVars, resp, history, accepted, clock>>

SudokuHandleMergeRUnlock(p) ==
    /\ pc[p] = "SudokuHandleMerge_RUnlock"
    /\ stateMu' = RUnlock(stateMu, p)
    /\ Goto(p, "SudokuHandleMerge_Merge")
    /\ UNCHANGED <<todoVars, sudoku, local, resp, history, accepted, clock>>

SudokuHandleMergeMerge(p) ==
    /\ pc[p] = "SudokuHandleMerge_Merge"
    /\ local' = [local EXCEPT ![p].newState = SudokuMerge(local[p].currentState, local[p].incomingState)]
    /\ Goto(p, "SudokuHandleMerge_Lock")
    /\ UNCHANGED <<todoVars, sudokuVars, resp, history, accepted, clock>>

SudokuHandleMergeLock(p) ==
    /\ pc[p] = "SudokuHandleMerge_Lock"
    /\ CanLock(stateMu)
    /\ stateMu' = Lock(stateMu, p)
    /\ local' = [local EXCEPT ![p].wlocks = @ + 1]
    /\ Goto(p, "SudokuHandleMerge_store")
    /\ UNCHANGED <<todoVars, sudoku, resp, history, accepted, clock>>

SudokuHandleMergeStore(p) ==
    /\ pc[p] = "SudokuHandleMerge_store"
    /\ sudoku' = local[p].newState
    /\ Commit("sudoku", p, local[p].newState)
    /\ Goto(p, "SudokuHandleMerge_Unlock")
    /\ UNCHANGED <<todoVars, stateMu, local, resp, accepted, clock>>

\* s.stateMu.Unlock(), then the response is written
SudokuHandleMergeUnlock(p) ==
    /\ pc[p] = "SudokuHandleMerge_Unlock"
    /\ stateMu' = Unlock(stateMu, p)
    /\ Return(p, [status |-> 200, success |-> TRUE, board |-> local[p].newState.Board])
    /\ UNCHANGED <<todoVars, sudoku, history, accepted, clock>>

(***************************************************************************)
(* Sudoku server: the reader HandleExport.                                 *)
(***************************************************************************)
SudokuHandleExport(p) ==
    /\ Accept(p)
    /\ Goto(p, "SudokuHandleExport")
    /\ local' = [local EXCEPT ![p] = Serve("SudokuHandleExport")]
    /\ resp' = [resp EXCEPT ![p] = Pending]
    /\ UNCHANGED <<todoVars, sudokuVars, history, clock>>

SudokuHandleExportRLock(p) ==
    /\ pc[p] = "SudokuHandleExport"
    /\ CanRLock(stateMu)
    /\ stateMu' = RLock(stateMu, p)
    /\ local' = [local EXCEPT ![p].rlocks = @ + 1]
    /\ Goto(p, "SudokuHandleExport_read")
    /\ UNCHANGED <<todoVars, sudoku, resp, history, accepted, clock>>

SudokuHandleExportRead(p) ==
    /\ pc[p] = "SudokuHandleExport_read"
    /\ local' = [local EXCEPT ![p].currentState = sudoku]
    /\ Goto(p, "SudokuHandleExport_RUnlock")
    /\ UNCHANGED <<todoVars, sudokuVars, resp, history, accepted, clock>>

\* s.stateMu.RUnlock(), then the board is encoded into the response
SudokuHandleExportRUnlock(p) ==
    /\ pc[p] = "SudokuHandleExport_RUnlock"
    /\ stateMu' = RUnlock(stateMu, p)
    /\ Return(p, [status |-> 200, body |-> EncodeSudokuState(local[p].currentState)])
    /\ UNCHANGED <<todoVars, sudoku, history, accepted, clock>>

(***************************************************************************)
(* The servers under concurrent requests.                                  *)
(***************************************************************************)
vars == <<serverVars, lawVars>>

NoResult == [none |-> TRUE]

\* the law tests are not running
LawIdle == opA = NoResult /\ opB = NoResult /\ opC = NoResult /\ res = NoResult

Init == ServerInit /\ LawIdle

TodoNext ==
    \E p \in Procs :
        \/ \E method \in Methods, body \in AddBodies : HandleAdd(p, method, body)
        \/ ProcessRequestRLock(p)
        \/ ProcessRequestRead(p)
        \/ ProcessRequestRUnlock(p)
        \/ ProcessRequestAdd(p)
        \/ ProcessRequestLock(p)
        \/ ProcessRequestStore(p)
        \/ ProcessRequestUnlock(p)
        \/ ProcessRequestReturn(p)
        \/ \E method \in Methods, body \in TodoMergeBodies : HandleMerge(p, method, body)
        \/ HandleMergeRLock(p)
        \/ HandleMergeRead(p)
        \/ HandleMergeRUnlock(p)
        \/ HandleMergeMerge(p)
        \/ HandleMergeLock(p)
        \/ HandleMergeStore(p)
        \/ HandleMergeUnlock(p)
        \/ HandleRoot(p)
        \/ HandleRootRLock(p)
        \/ HandleRootReadTodos(p)
        \/ HandleRootReadNextID(p)
        \/ HandleRootRUnlock(p)
        \/ HandleExport(p)
        \/ HandleExportRLock(p)
        \/ HandleExportRead(p)
        \/ HandleExportRUnlock(p)

SudokuNext ==
    \E p \in Procs :
        \/ \E method \in Methods, body \in PlaceBodies : HandlePlace(p, method, body)
        \/ HandlePlaceRLock(p)
        \/ HandlePlaceRead(p)
        \/ HandlePlaceRUnlock(p)
        \/ HandlePlacePlaceNumber(p)
        \/ HandlePlaceLock(p)
        \/ HandlePlaceStore(p)
        \/ HandlePlaceUnlock(p)
        \/ \E method \in Methods, body \in SudokuMergeBodies : SudokuHandleMerge(p, method, body)
        \/ SudokuHandleMergeRLock(p)
        \/ SudokuHandleMergeRead(p)
        \/ SudokuHandleMergeRUnlock(p)
        \/ SudokuHandleMergeMerge(p)
        \/ SudokuHandleMergeLock(p)
        \/ SudokuHandleMergeStore(p)
        \/ SudokuHandleMergeUnlock(p)
        \/ SudokuHandleExport(p)
        \/ SudokuHandleExportRLock(p)
        \/ SudokuHandleExportRead(p)
        \/ SudokuHandleExportRUnlock(p)

Next == TodoNext \/ SudokuNext

Spec == Init /\ [][Next]_vars

(***************************************************************************)
(* The servers when a transformation can fail: a panic in Add, PlaceNumber *)
(* or Merge unwinds the handler (which defers nothing) and net/http        *)
(* recovers it.                                                            *)
(***************************************************************************)
ComputeLabels ==
    { "ProcessRequest_Add", "HandleMerge_Merge", "HandlePlace_PlaceNumber",
      "SudokuHandleMerge_Merge" }

TodoHandlers == {"HandleAdd", "HandleMerge", "HandleRoot", "HandleExport"}

ServerOf(h) == IF h \in TodoHandlers THEN "todo" ELSE "sudoku"

TransformationPanics(p) ==
    /\ pc[p] \in ComputeLabels
    /\ Return(p, Aborted)
    /\ history' = Append(history,
            [ev |-> "panic", srv |-> ServerOf(local[p].handler), p |-> p, snap |-> None])
    /\ UNCHANGED <<todoVars, sudokuVars, accepted, clock>>

FaultNext ==
    \/ Next
    \/ \E p \in Procs : TransformationPanics(p)

SpecFault == Init /\ [][FaultNext]_vars

(***************************************************************************)
(* The store discipline of the two servers, checked under Spec and         *)
(* SpecFault.                                                              *)
(***************************************************************************)
IsStore(e, srv) == e.ev = "store" /\ e.srv = srv

\* every snapshot a server's store has held so far
Published(srv) ==
    {IF srv = "todo" THEN NewServer ELSE NewSudokuServer}
        \cup { history[i].snap : i \in { j \in DOMAIN history : IsStore(history[j], srv) } }

HoldsAny(p) == Holds(RWMutex, p) \/ Holds(stateMu, p)

StoredBy(p) == \E i \in DOMAIN history : history[i].ev = "store" /\ history[i].p = p

\* later still has what earlier had: every record, or every filled cell
Descends(srv, later, earlier) ==
    IF srv = "todo"
    THEN RecordsOf(earlier.Todos) \subseteq RecordsOf(later.Todos)
    ELSE \A row \in Cells, col \in Cells :
            earlier.Board[row][col] # 0 => later.Board[row][col] # 0

\* C1: of two stores on one server, the snapshot stored later descends from
\* the snapshot stored earlier: it still holds the earlier update's effect.
C1_LaterStoreDescends ==
    \A i, j \in DOMAIN history :
        \A srv \in {"todo", "sudoku"} :
            (i < j /\ IsStore(history[i], srv) /\ IsStore(history[j], srv)) =>
                Descends(srv, history[j].snap, history[i].snap)

\* what goroutine p has read from the todo store so far
ObservedTodo(p) ==
    (IF local[p].handler \in {"HandleAdd", "HandleMerge", "HandleExport"}
        /\ local[p].currentState # None
     THEN {local[p].currentState} ELSE {})
    \cup
    (IF pc[p] = "HandleRoot_RUnlock"
     THEN {[Todos |-> local[p].todos, NextID |-> local[p].nextID]} ELSE {})
    \cup
    (IF local[p].handler = "HandleRoot" /\ pc[p] = "done"
     THEN {[Todos |-> resp[p].todos, NextID |-> resp[p].next_id]} ELSE {})

\* what goroutine p has read from the sudoku store so far
ObservedSudoku(p) ==
    IF local[p].handler \in {"HandlePlace", "SudokuHandleMerge", "SudokuHandleExport"}
        /\ local[p].currentState # None
    THEN {local[p].currentState} ELSE {}

\* C2: every snapshot a reader obtains is the initial snapshot or one that a
\* finished Add, PlaceNumber or Merge produced and a handler stored; the
\* Todos and NextID of HandleRoot come from one snapshot.
C2_ReadersSeePublishedSnapshots ==
    \A p \in Procs :
        /\ ObservedTodo(p) \subseteq Published("todo")
        /\ ObservedSudoku(p) \subseteq Published("sudoku")

\* HandleRoot holds both fields while an Add computed meanwhile waits to store
C2_Witness ==
    \E p, q \in Procs :
        /\ pc[p] = "HandleRoot_RUnlock"
        /\ pc[q] = "ProcessRequest_Lock"
        /\ local[q].newState # state

\* C3: while a handler computes Add, PlaceNumber or Merge it holds neither
\* the read nor the write lock of its store; it has released the read lock
\* it took and has not yet asked for the write lock.
C3_ComputeHoldsNoLock ==
    \A p \in Procs :
        /\ pc[p] \in ComputeLabels =>
              (~HoldsAny(p) /\ local[p].rlocks = 1 /\ local[p].wlocks = 0)
        /\ (RWMutex.writer = p \/ stateMu.writer = p) => local[p].newState # None

\* one handler computes while another holds the write lock of the same store
C3_Witness ==
    \E p, q \in Procs :
        /\ pc[p] = "HandlePlace_PlaceNumber"
        /\ stateMu.writer = q
        /\ local[p].currentState = sudoku

\* C4: after the transformation of an add, place or merge request has
\* panicked, the handler has never taken the write lock, holds no lock and
\* has stored nothing; each store still holds the last snapshot stored.
C4_PanicLeavesStoreUntouched ==
    /\ \A p \in Procs :
          resp[p] = Aborted =>
              /\ pc[p] = "done"
              /\ ~HoldsAny(p)
              /\ local[p].wlocks = 0
              /\ ~StoredBy(p)
    /\ state \in Published("todo")
    /\ sudoku \in Published("sudoku")

\* after one request panicked, another read the store and stored its result
C4_Witness ==
    \E i, j \in DOMAIN history :
        /\ i < j
        /\ history[i].ev = "panic"
        /\ history[j].ev = "store"
        /\ history[j].srv = history[i].srv
        /\ resp[history[i].p] = Aborted
        /\ pc[history[j].p] = "done"

\* C5: a /merge request whose body fails to decode is answered with an error
\* by a handler that has taken no store lock and stored nothing.
C5_BadMergeBodyRejected ==
    \A p \in Procs :
        (local[p].handler \in {"HandleMerge", "SudokuHandleMerge"} /\ resp[p] = HttpError(400)) =>
            /\ pc[p] = "done"
            /\ local[p].rlocks = 0 /\ local[p].wlocks = 0
            /\ ~HoldsAny(p)
            /\ ~StoredBy(p)

\* a rejected /merge on a store that holds an earlier update
C5_Witness ==
    \E p \in Procs :
        /\ local[p].handler = "HandleMerge" /\ resp[p] = HttpError(400)
        /\ state # NewServer

(***************************************************************************)
(* The law tests of TodoState.Merge.                                       *)
(***************************************************************************)
\* the operands of the law tests: generator-produced TodoStates
LawInit ==
    /\ ServerInit
    /\ opA \in TodoState
    /\ opB \in TodoState
    /\ opC \in TodoState
    /\ res = NoResult

\* the law tests' evaluations of the operation under test
WrapMerge ==
    /\ res = NoResult
    /\ res' = [ ab |-> Merge(opA, opB),
                ba |-> Merge(opB, opA),
                aa |-> Merge(opA, opA),
                ab_c |-> Merge(Merge(opA, opB), opC),
                a_bc |-> Merge(opA, Merge(opB, opC)) ]
    /\ UNCHANGED <<opA, opB, opC, serverVars>>

LawNext == WrapMerge

SpecMerge == LawInit /\ [][LawNext]_vars

(***************************************************************************)
(* The algebraic laws of TodoState.Merge, checked under SpecMerge.         *)
(***************************************************************************)
Evaluated == res # NoResult

Disjoint(s, t) == IDsOf(s.Todos) \cap IDsOf(t.Todos) = {}

PairwiseDisjoint == Disjoint(opA, opB) /\ Disjoint(opB, opC) /\ Disjoint(opA, opC)

\* every ID carried by both s and t is carried with the same record
Agree(s, t) ==
    \A x \in RecordsOf(s.Todos), y \in RecordsOf(t.Todos) : x.ID = y.ID => x = y

\* C6: Merge is associative on states with pairwise-disjoint record IDs:
\* a.Merge(b).Merge(c) and a.Merge(b.Merge(c)) are the same records in the
\* same order with the same NextID.
C6_MergeAssociative ==
    (Evaluated /\ PairwiseDisjoint) => res.ab_c = res.a_bc

\* three non-empty operands with disjoint IDs and unequal NextID, merged both ways
C6_Witness ==
    /\ Evaluated /\ PairwiseDisjoint
    /\ opA.Todos # <<>> /\ opB.Todos # <<>> /\ opC.Todos # <<>>
    /\ Len(res.ab_c.Todos) = 3
    /\ opA.NextID > opB.NextID

\* C7: for disjoint record-ID sets a.Merge(b) and b.Merge(a) hold the same
\* set of records and the same NextID, whatever the order of the records.
C7_MergeCommutativeDisjoint ==
    (Evaluated /\ Disjoint(opA, opB)) =>
        /\ RecordsOf(res.ab.Todos) = RecordsOf(res.ba.Todos)
        /\ res.ab.NextID = res.ba.NextID

\* disjoint non-empty operands whose two merges differ in order only
C7_Witness ==
    /\ Evaluated /\ Disjoint(opA, opB)
    /\ opA.Todos # <<>> /\ opB.Todos # <<>>
    /\ opA.NextID # opB.NextID
    /\ res.ab.Todos # res.ba.Todos

C9_MergeIdempotent ==
    Evaluated => (res.aa.Todos = opA.Todos /\ res.aa.NextID = opA.NextID)

\* a state of two records merged with itself
C9_Witness ==
    Evaluated /\ Len(opA.Todos) = 2 /\ Len(res.aa.Todos) = 2

\* C10: a.Merge(b) holds exactly the IDs of a and of b, each in one record;
\* where a and b carry one ID with different payloads the result holds a's
\* record and not b's.
C10_MergeKeepsLeftOnCollision ==
    Evaluated =>
        /\ IDsOf(res.ab.Todos) = IDsOf(opA.Todos) \cup IDsOf(opB.Todos)
        /\ UniqueIDs(res.ab.Todos)
        /\ \A x \in RecordsOf(opA.Todos), y \in RecordsOf(opB.Todos) :
              (x.ID = y.ID /\ x # y) =>
                  (x \in RecordsOf(res.ab.Todos) /\ y \notin RecordsOf(res.ab.Todos))

\* a and b carry one ID with different payloads, and b has an ID a lacks
C10_Witness ==
    /\ Evaluated
    /\ \E x \in RecordsOf(opA.Todos), y \in RecordsOf(opB.Todos) : x.ID = y.ID /\ x # y
    /\ IDsOf(opB.Todos) \ IDsOf(opA.Todos) # {}

(***************************************************************************)
(* Two todo servers (the test scripts start one on port 8080 and one on    *)
(* port 8081) that serve /add and take each other's /export through        *)
(* /merge.  The scripts send one request at a time: a request is served    *)
(* from start to end before the next one is sent, so no lock is held       *)
(* between two steps.  Here state[k] is the Server.state of replica k,     *)
(* requestsProcessed[k] its metric, and history the servers' constructions *)
(* followed by the requests served.                                        *)
(***************************************************************************)
\* number of requests the two replicas serve in one behaviour
MaxExchange == 5

Replicas == {1, 2}

Peer(k) == IF k = 1 THEN 2 ELSE 1

NewServerWithIDMultiplier(idMult) == [Todos |-> <<>>, NextID |-> idMult * 100]

\* the ways main starts a server: NewServer(), or NewServerWithIDMultiplier
\* with the multiplier of port 8080, of port 8081 or of the command line
Constructions ==
    { [new |-> "NewServer", idMult |-> 1, state |-> NewServer] } \cup
    { [new |-> "NewServerWithIDMultiplier", idMult |-> m,
       state |-> NewServerWithIDMultiplier(m)] : m \in 1..2 }

ReplicaInit ==
    /\ \E c \in [Replicas -> Constructions] :
          /\ state = [k \in Replicas |-> c[k].state]
          /\ history = [k \in Replicas |->
                          [ev |-> c[k].new, srv |-> k, idMult |-> c[k].idMult,
                           snap |-> c[k].state]]
    /\ requestsProcessed = [k \in Replicas |-> 0]
    /\ RWMutex = Unlocked
    /\ sudoku = NewSudokuServer
    /\ stateMu = Unlocked
    /\ pc = [p \in Procs |-> "idle"]
    /\ local = [p \in Procs |-> NoLocal]
    /\ resp = [p \in Procs |-> Pending]
    /\ accepted = 0
    /\ clock = 0
    /\ LawIdle

\* POST /add {"title": title} on replica k: HandleAdd and ProcessRequest
ReplicaAdd(k, title) ==
    /\ accepted < MaxExchange
    /\ LET req == DecodeAdd([ok |-> TRUE, title |-> title])
           currentState == state[k]
           newState == Add(currentState, req.Title, clock)
       IN  /\ ~req.err /\ req.Title # ""
           /\ state' = [state EXCEPT ![k] = newState]
           /\ history' = Append(history,
                  [ev |-> "add", srv |-> k, pre |-> currentState, snap |-> newState,
                   todo |-> newState.Todos[Len(newState.Todos)]])
    /\ requestsProcessed' = [requestsProcessed EXCEPT ![k] = @ + 1]
    /\ clock' = clock + 1
    /\ accepted' = accepted + 1
    /\ UNCHANGED <<RWMutex, sudokuVars, pc, local, resp, lawVars>>

\* mutant: the merged state is computed but the receiver's state is kept
ReplicaMergeNotStored(k) ==
    /\ accepted < MaxExchange
    /\ LET body == EncodeTodoState(state[Peer(k)])
           incoming == DecodeTodoState(body)
           currentState == state[k]
           newState == Merge(currentState, incoming.val)
       IN  /\ ~incoming.err
           /\ state' = state
           /\ history' = Append(history,
                  [ev |-> "merge", srv |-> k, pre |-> currentState,
                   incoming |-> incoming.val, snap |-> newState])
    /\ accepted' = accepted + 1
    /\ UNCHANGED <<RWMutex, requestsProcessed, sudokuVars, pc, local, resp, clock, lawVars>>

\* curl /export on the peer piped into POST /merge on replica k:
\* HandleExport there, HandleMerge here
ReplicaMerge(k) ==
    /\ accepted < MaxExchange
    /\ LET body == EncodeTodoState(state[Peer(k)])
           incoming == DecodeTodoState(body)
           currentState == state[k]
           newState == Merge(currentState, incoming.val)
       IN  /\ ~incoming.err
           /\ state' = [state EXCEPT ![k] = newState]
           /\ history' = Append(history,
                  [ev |-> "merge", srv |-> k, pre |-> currentState,
                   incoming |-> incoming.val, snap |-> newState])
    /\ accepted' = accepted + 1
    /\ UNCHANGED <<RWMutex, requestsProcessed, sudokuVars, pc, local, resp, clock, lawVars>>

ReplicaNext ==
    \E k \in Replicas :
        \/ \E title \in Titles : ReplicaAdd(k, title)
        \/ ReplicaMerge(k)

SpecReplicas == ReplicaInit /\ [][ReplicaNext]_vars

(***************************************************************************)
(* The replicas' records and IDs, checked under SpecReplicas.              *)
(***************************************************************************)
\* the requests served so far, oldest first
Requests == { i \in DOMAIN history : history[i].ev \in {"add", "merge"} }

Merges == { i \in Requests : history[i].ev = "merge" }

Adds == { i \in Requests : history[i].ev = "add" }

\* the NextID replica k was constructed with
StartID(k) == history[k].snap.NextID

\* number of records replica k had added itself when request i was served
AddedBefore(k, i) == Cardinality({ j \in Adds : j < i /\ history[j].srv = k })

\* replica k has taken no /merge before request i: its records are its own
OwnOnlyBefore(k, i) == \A j \in Merges : j < i => history[j].srv # k

\* C11: a.Merge(b) has one record for each distinct ID of a and b.  Of two
\* stores that only added records, n and m of them, the merge has n + m
\* records when their IDs are disjoint, and when both started at NextID = 1
\* only the larger of n and m (n, when each added n).
C11_MergeCountsDistinctIDs ==
    \A i \in Merges :
        LET a == history[i].pre
            b == history[i].incoming
            k == history[i].srv
            n == AddedBefore(k, i)
            m == AddedBefore(Peer(k), i)
            own == OwnOnlyBefore(1, i) /\ OwnOnlyBefore(2, i)
        IN  /\ Len(history[i].snap.Todos) = Cardinality(IDsOf(a.Todos) \cup IDsOf(b.Todos))
            /\ (own /\ Disjoint(a, b)) => Len(history[i].snap.Todos) = n + m
            /\ (own /\ StartID(1) = 1 /\ StartID(2) = 1) =>
                  Len(history[i].snap.Todos) = Max(n, m)

\* both stores started at NextID = 1 and added two records each; the merge
\* of the two has two records, not four
C11_Witness ==
    \E i \in Merges :
        /\ StartID(1) = 1 /\ StartID(2) = 1
        /\ Len(history[i].pre.Todos) = 2
        /\ Len(history[i].incoming.Todos) = 2
        /\ Len(history[i].snap.Todos) = 2
        /\ state[history[i].srv] = history[i].snap

(***************************************************************************)
(* The NextID of a merge, checked under SpecMerge.                         *)
(***************************************************************************)
\* C12: the NextID of a.Merge(b) is the larger of a.NextID and b.NextID: it
\* is one of the two and is below neither.
C12_MergeNextIDIsMax ==
    Evaluated =>
        /\ res.ab.NextID \in {opA.NextID, opB.NextID}
        /\ res.ab.NextID >= opA.NextID
        /\ res.ab.NextID >= opB.NextID
        /\ res.ba.NextID = res.ab.NextID

\* the receiver holds records but the larger NextID is the other's
C12_Witness ==
    /\ Evaluated
    /\ opA.Todos # <<>>
    /\ opA.NextID < opB.NextID
    /\ res.ab.NextID = opB.NextID

(***************************************************************************)
(* TodoState.Add on its own: a receiver, a title and the time of the call. *)
(***************************************************************************)
\* what time.Now() returns
Times == 0..1

AddInit ==
    /\ ServerInit
    /\ opA \in TodoState
    /\ opB \in Titles \cup {""}
    /\ opC \in Times
    /\ res = NoResult

\* newState = currentState.Add(title)
CallAdd ==
    /\ res = NoResult
    /\ res' = [added |-> Add(opA, opB, opC)]
    /\ UNCHANGED <<opA, opB, opC, serverVars>>

AddNext == CallAdd

SpecAdd == AddInit /\ [][AddNext]_vars

\* C13: s.Add(title) has s's records in s's order followed by one new record
\* with ID = s.NextID, the given title and Completed = false; its NextID is
\* s.NextID + 1.
C13_AddAppendsOneRecord ==
    Evaluated =>
        LET added == res.added
            n == Len(opA.Todos)
        IN  /\ Len(added.Todos) = n + 1
            /\ \A i \in 1..n : added.Todos[i] = opA.Todos[i]
            /\ added.Todos[n + 1].ID = opA.NextID
            /\ added.Todos[n + 1].Title = opB
            /\ added.Todos[n + 1].Completed = FALSE
            /\ added.NextID = opA.NextID + 1

\* a record added to a state of two records whose counter is past their IDs
C13_Witness ==
    /\ Evaluated
    /\ Len(opA.Todos) = 2
    /\ opA.NextID = 4
    /\ res.added.Todos[3].ID = 4
    /\ res.added.NextID = 5

(***************************************************************************)
(* Add and Merge on Go's memory.  A []Todo is a slice header (ptr, len,    *)
(* cap) over a backing array; copying a TodoState copies the header and    *)
(* shares the array.  Here opC is the heap (the backing arrays, by         *)
(* address), opA and opB are TodoStates whose Todos are slice headers, and *)
(* res holds the returned TodoState and the heap before the call.          *)
(***************************************************************************)
\* the zero value of Todo
ZeroTodo == [ID |-> 0, Title |-> "", Completed |-> FALSE, CreatedAt |-> 0]

\* the records a slice header shows
Elems(heap, sl) == [i \in 1..sl.len |-> heap[sl.ptr][i]]

\* the TodoState value a header-carrying TodoState stands for
Deref(heap, s) == [Todos |-> Elems(heap, s.Todos), NextID |-> s.NextID]

\* make([]Todo, len, cap): a new zeroed backing array
Make(heap, len, cap) ==
    [ heap |-> Append(heap, [i \in 1..cap |-> ZeroTodo]),
      slice |-> [ptr |-> Len(heap) + 1, len |-> len, cap |-> cap] ]

\* dst[i] = todo
SetElem(heap, sl, i, todo) == [heap EXCEPT ![sl.ptr][i] = todo]

\* copy(dst, src)
Copy(heap, dst, src) ==
    LET n == IF dst.len <= src.len THEN dst.len ELSE src.len
    IN  [heap EXCEPT ![dst.ptr] =
            [i \in 1..dst.cap |-> IF i <= n THEN heap[src.ptr][i] ELSE @[i]]]

\* append(sl, todo): in place while the capacity lasts, else into a new,
\* larger array
SliceAppend(heap, sl, todo) ==
    IF sl.len < sl.cap
    THEN [ heap |-> SetElem(heap, sl, sl.len + 1, todo),
           slice |-> [sl EXCEPT !.len = @ + 1] ]
    ELSE LET grown == Make(heap, sl.len + 1, 2 * sl.cap + 1)
             copied == IF sl.len = 0 THEN grown.heap ELSE Copy(grown.heap, grown.slice, sl)
         IN  [ heap |-> SetElem(copied, grown.slice, sl.len + 1, todo),
               slice |-> grown.slice ]

\* mutant: the new todo is appended to the receiver's own slice
AddOnHeapAppendsInPlace(heap, s, title, now) ==
    LET newTodo == [ID |-> s.NextID, Title |-> title, Completed |-> FALSE, CreatedAt |-> now]
        appended == SliceAppend(heap, s.Todos, newTodo)
    IN  [ heap |-> appended.heap,
          out |-> [Todos |-> appended.slice, NextID |-> s.NextID + 1] ]

\* TodoState.Add, statement by statement
AddOnHeap(heap, s, title, now) ==
    LET newTodo == [ID |-> s.NextID, Title |-> title, Completed |-> FALSE, CreatedAt |-> now]
        made == Make(heap, s.Todos.len + 1, s.Todos.len + 1)
        newTodos == made.slice
        copied == IF s.Todos.len = 0 THEN made.heap ELSE Copy(made.heap, newTodos, s.Todos)
    IN  [ heap |-> SetElem(copied, newTodos, s.Todos.len + 1, newTodo),
          out |-> [Todos |-> newTodos, NextID |-> s.NextID + 1] ]

\* one of Merge's two loops: range over src, append what is not in seen
RECURSIVE AppendUnseenOnHeap(_, _, _, _, _)
AppendUnseenOnHeap(heap, src, i, result, seen) ==
    IF i > src.len
    THEN [heap |-> heap, result |-> result, seen |-> seen]
    ELSE LET todo == heap[src.ptr][i]
         IN  IF todo.ID \notin seen
             THEN LET appended == SliceAppend(heap, result, todo)
                  IN  AppendUnseenOnHeap(appended.heap, src, i + 1, appended.slice,
                                         seen \cup {todo.ID})
             ELSE AppendUnseenOnHeap(heap, src, i + 1, result, seen)

\* TodoState.Merge, statement by statement
MergeOnHeap(heap, s, other) ==
    LET made == Make(heap, 0, s.Todos.len + other.Todos.len)
        first == AppendUnseenOnHeap(made.heap, s.Todos, 1, made.slice, {})
        second == AppendUnseenOnHeap(first.heap, other.Todos, 1, first.result, first.seen)
        maxID == Max(other.NextID, s.NextID)
    IN  [ heap |-> second.heap,
          out |-> [Todos |-> second.result, NextID |-> maxID] ]

\* a backing array of the given capacity whose first places hold todos
Backing(todos, cap) == [i \in 1..cap |-> IF i <= Len(todos) THEN todos[i] ELSE ZeroTodo]

\* spare capacity of the operands' slices (a length-exact slice, or one that
\* an append or a Merge with duplicates left room in)
Spare == 0..1

\* the operands: two TodoStates with an array each, or one TodoState held
\* twice (the copy a reader took of the store's snapshot)
HeapInit ==
    /\ ServerInit
    /\ res = NoResult
    /\ \E a \in TodoState, b \in TodoState, sa \in Spare, sb \in Spare, shared \in BOOLEAN :
          LET la == Len(a.Todos)
              lb == Len(b.Todos)
              ha == [ptr |-> 1, len |-> la, cap |-> la + sa]
              hb == [ptr |-> 2, len |-> lb, cap |-> lb + sb]
          IN  /\ opC = << Backing(a.Todos, la + sa), Backing(b.Todos, lb + sb) >>
              /\ opA = [Todos |-> ha, NextID |-> a.NextID]
              /\ opB = IF shared THEN opA ELSE [Todos |-> hb, NextID |-> b.NextID]

\* opA.Add(title): the operands are passed by value, the heap is shared
HeapAdd(title, now) ==
    /\ res = NoResult
    /\ LET r == AddOnHeap(opC, opA, title, now)
       IN  /\ opC' = r.heap
           /\ res' = [call |-> "Add", out |-> r.out, before |-> opC, title |-> title, now |-> now]
    /\ UNCHANGED <<opA, opB, serverVars>>

\* opA.Merge(opB)
HeapMerge ==
    /\ res = NoResult
    /\ LET r == MergeOnHeap(opC, opA, opB)
       IN  /\ opC' = r.heap
           /\ res' = [call |-> "Merge", out |-> r.out, before |-> opC]
    /\ UNCHANGED <<opA, opB, serverVars>>

HeapNext ==
    \/ \E title \in Titles, now \in Times : HeapAdd(title, now)
    \/ HeapMerge

SpecHeap == HeapInit /\ [][HeapNext]_vars

\* C14: a.Merge(b) and a.Add(t) write to no backing array that existed
\* before the call, so a, b and every copy held elsewhere show the same
\* records and NextID afterwards; the state returned lives in a new array
\* and is the value Add or Merge defines.
C14_OperandsUnchanged ==
    Evaluated =>
        /\ \A addr \in DOMAIN res.before : opC[addr] = res.before[addr]
        /\ Deref(opC, opA) = Deref(res.before, opA)
        /\ Deref(opC, opB) = Deref(res.before, opB)
        /\ res.out.Todos.ptr \notin DOMAIN res.before
        /\ res.call = "Add" =>
              Deref(opC, res.out) = Add(Deref(res.before, opA), res.title, res.now)
        /\ res.call = "Merge" =>
              Deref(opC, res.out) = Merge(Deref(res.before, opA), Deref(res.before, opB))

\* Add on a store snapshot that a reader also holds and whose slice has room
\* to append in place
C14_WitnessAdd ==
    /\ Evaluated /\ res.call = "Add"
    /\ opB = opA
    /\ opA.Todos.len = 2 /\ opA.Todos.cap = 3
    /\ Len(Deref(opC, res.out).Todos) = 3

\* the two replicas were built by NewServerWithIDMultiplier with different
\* multipliers
DifferentMultipliers ==
    /\ history[1].ev = "NewServerWithIDMultiplier"
    /\ history[2].ev = "NewServerWithIDMultiplier"
    /\ history[1].idMult # history[2].idMult

\* C15: when the two servers were built with different ID multipliers, no
\* two /add requests, on one server or on both, are given the same ID,
\* whatever /merge exchanges lie between them.
C15_ReplicasIssueDistinctIDs ==
    DifferentMultipliers =>
        \A i, j \in Adds : i # j => history[i].todo.ID # history[j].todo.ID

\* the last two requests served were an exchange: the export of one replica
\* merged into the other and then the other's export merged back
ExchangeDone ==
    LET n == Len(history)
    IN  /\ n - 1 \in Merges
        /\ n \in Merges
        /\ history[n - 1].srv # history[n].srv

\* the states the two replicas held when the exchange began
BeforeExchange == history[Len(history) - 1]

SameTodosAndNextID ==
    /\ RecordsOf(state[1].Todos) = RecordsOf(state[2].Todos)
    /\ state[1].NextID = state[2].NextID

CountFilled(s) ==
    Cardinality({ rc \in Cells \X Cells : s.Board[rc[1]][rc[2]] # 0 })

\* boards that differ in three cells, each empty or holding one of two values
SudokuStates ==
    { [Board |-> [EmptyBoard EXCEPT ![0][0] = x, ![0][1] = y, ![8][8] = z]] :
        x \in {0, 5, 7}, y \in {0, 5, 7}, z \in {0, 5, 7} }

\* positions on, at the edges of and off the board; numbers in 1..9, 0 and
\* on both sides out of range
PlaceArgs ==
    [row : {-1, 0, 8, 9}, col : {-1, 0, 1, 8, 9}, num : {-1, 0, 1, 5, 9, 10}]

PlaceInit ==
    /\ ServerInit
    /\ opA \in SudokuStates
    /\ opB \in PlaceArgs
    /\ opC = NoResult
    /\ res = NoResult

\* newState := currentState.PlaceNumber(req.Row, req.Col, req.Num)
CallPlaceNumber ==
    /\ res = NoResult
    /\ res' = [placed |-> PlaceNumber(opA, opB.row, opB.col, opB.num)]
    /\ UNCHANGED <<opA, opB, opC, serverVars>>

PlaceNext == CallPlaceNumber

SpecPlace == PlaceInit /\ [][PlaceNext]_vars

OnBoard == opB.row \in 0..8 /\ opB.col \in 0..8

\* C17: PlaceNumber returns a board equal to the receiver when row or col is
\* outside 0..8, when num is not one of 1..9 (outside 0..9 it is refused,
\* and 0 leaves the empty cell empty), or when the cell is already filled;
\* what it returns is a SudokuState, never an error.
C17_PlaceNumberRejectsSilently ==
    Evaluated =>
        /\ DOMAIN res.placed = {"Board"}
        /\ (~OnBoard \/ opB.num \notin 1..9 \/ opA.Board[opB.row][opB.col] # 0) =>
              res.placed = opA

\* a number of 1..9 placed on a cell that holds another number
C17_Witness ==
    /\ Evaluated
    /\ OnBoard /\ opB.num = 5
    /\ opA.Board[opB.row][opB.col] = 7
    /\ res.placed = opA

\* every cell but the target is as in the receiver
OtherCellsKept ==
    \A row \in Cells, col \in Cells :
        (row # opB.row \/ col # opB.col) => res.placed.Board[row][col] = opA.Board[row][col]

\* C18 as stated: for row and col in 0..8, an empty target cell and a num
\* that PlaceNumber accepts (0..9), the returned board has that cell filled
\* with num, CountFilled one larger and every other cell as before.
C18_PlaceFillsOneCellAnyAccepted ==
    (Evaluated /\ OnBoard /\ opB.num \in 0..9 /\ opA.Board[opB.row][opB.col] = 0) =>
        /\ res.placed.Board[opB.row][opB.col] = opB.num
        /\ res.placed.Board[opB.row][opB.col] # 0
        /\ CountFilled(res.placed) = CountFilled(opA) + 1
        /\ OtherCellsKept

\* C18 amended: the same for a num in 1..9.
C18_PlaceFillsOneCell ==
    (Evaluated /\ OnBoard /\ opB.num \in 1..9 /\ opA.Board[opB.row][opB.col] = 0) =>
        /\ res.placed.Board[opB.row][opB.col] = opB.num
        /\ res.placed.Board[opB.row][opB.col] # 0
        /\ CountFilled(res.placed) = CountFilled(opA) + 1
        /\ OtherCellsKept

\* 5 placed on the empty cell (0, 1) of a board with two other cells filled
C18_Witness ==
    /\ Evaluated
    /\ opB = [row |-> 0, col |-> 1, num |-> 5]
    /\ opA.Board[0][1] = 0
    /\ CountFilled(opA) = 2
    /\ CountFilled(res.placed) = 3

(***************************************************************************)
(* The law tests of SudokuState.Merge.                                     *)
(***************************************************************************)
\* third operands: in one cell a value neither of the other operands' two,
\* so that three boards can hold three different numbers in one cell
SudokuThirdStates ==
    { [Board |-> [EmptyBoard EXCEPT ![0][0] = x, ![0][1] = y]] :
        x \in {0, 3, 5, 7}, y \in {0, 7} }

SudokuLawInit ==
    /\ ServerInit
    /\ opA \in SudokuStates
    /\ opB \in SudokuStates
    /\ opC \in SudokuThirdStates
    /\ res = NoResult

\* the law tests' evaluations of the operation under test
WrapSudokuMerge ==
    /\ res = NoResult
    /\ res' = [ ab |-> SudokuMerge(opA, opB),
                ba |-> SudokuMerge(opB, opA),
                aa |-> SudokuMerge(opA, opA),
                ab_c |-> SudokuMerge(SudokuMerge(opA, opB), opC),
                a_bc |-> SudokuMerge(opA, SudokuMerge(opB, opC)) ]
    /\ UNCHANGED <<opA, opB, opC, serverVars>>

SudokuLawNext == WrapSudokuMerge

SpecSudokuMerge == SudokuLawInit /\ [][SudokuLawNext]_vars

\* C19: a.Merge(b) is cell by cell: empty with empty is empty, empty with a
\* value is the value, a value with empty is the value, two equal values
\* are that value, two different values are b's value.
C19_SudokuMergeTruthTable ==
    Evaluated =>
        \A row \in Cells, col \in Cells :
            LET x == opA.Board[row][col]
                y == opB.Board[row][col]
                z == res.ab.Board[row][col]
            IN  /\ (x = 0 /\ y = 0) => z = 0
                /\ (x = 0 /\ y # 0) => z = y
                /\ (x # 0 /\ y = 0) => z = x
                /\ (x # 0 /\ x = y) => z = x
                /\ (x # 0 /\ y # 0 /\ x # y) => z = y

\* operands with a conflict in one cell, a value only b has in another and
\* a value only a has in a third
C19_Witness ==
    /\ Evaluated
    /\ opA.Board[0][0] = 5 /\ opB.Board[0][0] = 7
    /\ opA.Board[0][1] = 0 /\ opB.Board[0][1] = 5
    /\ opA.Board[8][8] = 7 /\ opB.Board[8][8] = 0
    /\ res.ab.Board[0][0] = 7 /\ res.ab.Board[0][1] = 5 /\ res.ab.Board[8][8] = 7

\* a and b never hold different non-empty values in one cell
Compatible(a, b) ==
    \A row \in Cells, col \in Cells :
        (a.Board[row][col] # 0 /\ b.Board[row][col] # 0) =>
            a.Board[row][col] = b.Board[row][col]

\* C20: for boards a and b that never hold different non-empty values in
\* one cell, a.Merge(b) and b.Merge(a) are the same board.
C20_SudokuMergeCommutativeCompatible ==
    (Evaluated /\ Compatible(opA, opB)) => res.ab = res.ba

\* compatible operands that share a filled cell and have one each that the
\* other lacks
C20_Witness ==
    /\ Evaluated /\ Compatible(opA, opB)
    /\ opA.Board[0][0] = 5 /\ opB.Board[0][0] = 5
    /\ opA.Board[0][1] = 7 /\ opB.Board[0][1] = 0
    /\ opA.Board[8][8] = 0 /\ opB.Board[8][8] = 5
    /\ res.ab # opA /\ res.ab # opB

(***************************************************************************)
(* Further laws of SudokuState.Merge, checked under SpecSudokuMerge.       *)
(***************************************************************************)
\* C21: SudokuState.Merge is associative for all boards, those that hold
\* different values in one cell included: a.Merge(b).Merge(c) and
\* a.Merge(b.Merge(c)) are the same board.
C21_SudokuMergeAssociative ==
    Evaluated => res.ab_c = res.a_bc

\* three boards that hold three different numbers in one cell, and of which
\* only b and c disagree on another
C21_Witness ==
    /\ Evaluated
    /\ opA.Board[0][0] = 5 /\ opB.Board[0][0] = 7 /\ opC.Board[0][0] = 3
    /\ opA.Board[0][1] = 0 /\ opB.Board[0][1] = 5 /\ opC.Board[0][1] = 7
    /\ res.ab_c.Board[0][0] = 3 /\ res.ab_c.Board[0][1] = 7

\* the cells of s that hold a number
Filled(s) == { rc \in Cells \X Cells : s.Board[rc[1]][rc[2]] # 0 }

DisjointCells(a, b) == Filled(a) \cap Filled(b) = {}

\* C22: for boards whose filled cells are disjoint, a.Merge(b) holds every
\* filled cell of a and of b with its value and nothing else, and
\* CountFilled(a.Merge(b)) = CountFilled(a) + CountFilled(b).
C22_SudokuMergeKeepsDisjointCells ==
    (Evaluated /\ DisjointCells(opA, opB)) =>
        /\ \A rc \in Filled(opA) : res.ab.Board[rc[1]][rc[2]] = opA.Board[rc[1]][rc[2]]
        /\ \A rc \in Filled(opB) : res.ab.Board[rc[1]][rc[2]] = opB.Board[rc[1]][rc[2]]
        /\ Filled(res.ab) = Filled(opA) \cup Filled(opB)
        /\ CountFilled(res.ab) = CountFilled(opA) + CountFilled(opB)

\* a holds two cells, b a third one
C22_Witness ==
    /\ Evaluated /\ DisjointCells(opA, opB)
    /\ CountFilled(opA) = 2 /\ CountFilled(opB) = 1
    /\ CountFilled(res.ab) = 3

\* isValidSet(nums): no number but 0 occurs twice in the nine cells
isValidSet(nums) ==
    \A i, j \in DOMAIN nums : (i # j /\ nums[i] # 0) => nums[i] # nums[j]

getRow(s, row) == [i \in 1..9 |-> s.Board[row][i - 1]]

getCol(s, col) == [i \in 1..9 |-> s.Board[i - 1][col]]

getBox(s, boxRow, boxCol) ==
    [i \in 1..9 |-> s.Board[boxRow * 3 + ((i - 1) \div 3)][boxCol * 3 + ((i - 1) % 3)]]

IsValid(s) ==
    /\ \A row \in Cells : isValidSet(getRow(s, row))
    /\ \A col \in Cells : isValidSet(getCol(s, col))
    /\ \A boxRow \in 0..2, boxCol \in 0..2 : isValidSet(getBox(s, boxRow, boxCol))

\* two cells lie in one row, one column or one 3x3 box
SameUnit(p, q) ==
    \/ p[1] = q[1]
    \/ p[2] = q[2]
    \/ (p[1] \div 3 = q[1] \div 3 /\ p[2] \div 3 = q[2] \div 3)

\* no number of a meets the same number of b in a row, column or box
NoClashAcross(a, b) ==
    \A p \in Filled(a), q \in Filled(b) :
        SameUnit(p, q) => a.Board[p[1]][p[2]] # b.Board[q[1]][q[2]]

\* C23 as stated: for valid boards a and b whose filled cells are disjoint,
\* a.Merge(b) is valid.
C23_MergeOfValidDisjointIsValid ==
    (Evaluated /\ IsValid(opA) /\ IsValid(opB) /\ DisjointCells(opA, opB)) => IsValid(res.ab)

\* C23 amended: for valid boards a and b whose filled cells are disjoint and
\* of which no number of a shares a row, column or box with the same number
\* of b, a.Merge(b) is valid.
C23_MergeOfValidUnclashingIsValid ==
    (Evaluated /\ IsValid(opA) /\ IsValid(opB) /\ DisjointCells(opA, opB)
        /\ NoClashAcross(opA, opB)) => IsValid(res.ab)

\* a holds two numbers of one row, b a number elsewhere that a also holds
C23_Witness ==
    /\ Evaluated /\ IsValid(opA) /\ IsValid(opB)
    /\ DisjointCells(opA, opB) /\ NoClashAcross(opA, opB)
    /\ opA.Board[0][0] = 5 /\ opA.Board[0][1] = 7 /\ opB.Board[8][8] = 5
    /\ CountFilled(res.ab) = 3

\* C25: the empty board is a two-sided identity of SudokuState.Merge:
\* a.Merge(empty) = a and empty.Merge(a) = a.
C25_EmptyBoardIsIdentity ==
    (Evaluated /\ opB.Board = EmptyBoard) => (res.ab = opA /\ res.ba = opA)

\* a board of three filled cells merged with the empty board
C25_Witness ==
    /\ Evaluated
    /\ opB.Board = EmptyBoard
    /\ CountFilled(opA) = 3
    /\ res.ab = opA /\ res.ba = opA

(***************************************************************************)
(* Two sudoku servers, Blue (replica 1) and Green (replica 2), that serve  *)
(* /place and take each other's /export through /merge, one request at a   *)
(* time as blue-green.sh sends them.  Here sudoku[k] is the Server.state   *)
(* of replica k and history holds the last two requests served.            *)
(***************************************************************************)
\* the placements the script's clients send: two numbers for one cell and
\* two further cells
BlueGreenPlaces ==
    { [ok |-> TRUE, row |-> a[1], col |-> a[2], num |-> a[3]] :
        a \in { <<0, 0, 5>>, <<0, 0, 7>>, <<0, 1, 5>>, <<8, 8, 7>> } }

BlueGreenInit ==
    /\ sudoku = [k \in Replicas |-> NewSudokuServer]
    /\ history = <<>>
    /\ state = NewServer
    /\ RWMutex = Unlocked
    /\ requestsProcessed = 0
    /\ stateMu = Unlocked
    /\ pc = [p \in Procs |-> "idle"]
    /\ local = [p \in Procs |-> NoLocal]
    /\ resp = [p \in Procs |-> Pending]
    /\ accepted = 0
    /\ clock = 0
    /\ LawIdle

\* the last request served and the one before it
LastTwo(event) == IF history = <<>> THEN <<event>> ELSE <<history[Len(history)], event>>

\* POST /place on replica k: HandlePlace from start to end
BlueGreenPlace(k, body) ==
    /\ LET req == DecodePlace(body)
           currentState == sudoku[k]
           newState == PlaceNumber(currentState, req.Row, req.Col, req.Num)
       IN  /\ ~req.err
           /\ sudoku' = [sudoku EXCEPT ![k] = newState]
           /\ history' = LastTwo([ev |-> "place", srv |-> k, pre |-> currentState,
                                  snap |-> newState])
    /\ UNCHANGED <<todoVars, stateMu, pc, local, resp, accepted, clock, lawVars>>

\* curl /export on the peer piped into POST /merge on replica k:
\* HandleExport there, HandleMerge here
BlueGreenMerge(k) ==
    /\ LET body == EncodeSudokuState(sudoku[Peer(k)])
           incoming == DecodeSudokuState(body)
           currentState == sudoku[k]
           mergedState == SudokuMerge(currentState, incoming.val)
       IN  /\ ~incoming.err
           /\ sudoku' = [sudoku EXCEPT ![k] = mergedState]
           /\ history' = LastTwo([ev |-> "merge", srv |-> k, pre |-> currentState,
                                  incoming |-> incoming.val, snap |-> mergedState,
                                  filled |-> CountFilled(mergedState)])
    /\ UNCHANGED <<todoVars, stateMu, pc, local, resp, accepted, clock, lawVars>>

BlueGreenNext ==
    \E k \in Replicas :
        \/ \E body \in BlueGreenPlaces : BlueGreenPlace(k, body)
        \/ BlueGreenMerge(k)

SpecBlueGreen == BlueGreenInit /\ [][BlueGreenNext]_vars

\* the last two requests were merges
TwoMerges == Len(history) = 2 /\ history[1].ev = "merge" /\ history[2].ev = "merge"

\* the same export was merged into one replica twice in a row
MergedTwice ==
    /\ TwoMerges
    /\ history[1].srv = history[2].srv
    /\ history[1].incoming = history[2].incoming

\* C24: when the same exported board X is merged into a target twice with
\* no request in between, the second merge leaves the target's board and
\* its filled-cell count as the first merge left them:
\* Merge(Merge(T, X), X) = Merge(T, X).
C24_SudokuMergeRetryChangesNothing ==
    MergedTwice =>
        /\ history[2].pre = history[1].snap
        /\ history[2].snap = history[1].snap
        /\ history[2].filled = history[1].filled
        /\ sudoku[history[2].srv] = history[1].snap

\* the export held a number where the target held another, and a cell the
\* target lacked
C24_Witness ==
    /\ MergedTwice
    /\ history[1].pre.Board[0][0] = 5 /\ history[1].incoming.Board[0][0] = 7
    /\ history[1].pre.Board[8][8] = 0 /\ history[1].incoming.Board[8][8] = 7
    /\ history[2].filled = 2

\* one replica's export was merged into the other and then the other's
\* export merged back
SudokuExchangeDone == TwoMerges /\ history[1].srv # history[2].srv

\* C26: after Green's export is merged into Blue and Blue's export then into
\* Green (or the other way round), with no /place in between, both servers
\* hold the same board, also when they held different numbers in one cell.
C26_SudokuExchangeConverges ==
    SudokuExchangeDone => sudoku[1] = sudoku[2]

\* the two boards disagreed on a filled cell and each held a cell the other
\* lacked
C26_Witness ==
    /\ SudokuExchangeDone
    /\ history[1].pre.Board[0][0] = 5 /\ history[1].incoming.Board[0][0] = 7
    /\ history[1].pre.Board[0][1] = 5 /\ history[1].incoming.Board[0][1] = 0
    /\ history[1].pre.Board[8][8] = 0 /\ history[1].incoming.Board[8][8] = 7
    /\ sudoku[1] = sudoku[2]

(***************************************************************************)
(* TestMergeParallelSafe: the goroutines 1..MaxRequests each compute       *)
(* a.Merge(b) on the same two snapshots, statement by statement, on one    *)
(* heap.  Here opC is the heap, opA and opB are the shared snapshots,      *)
(* local[p] holds result, seen and the loop index of goroutine p, resp[p]  *)
(* the TodoState it returned, and res the heap before the goroutines       *)
(* started.                                                                *)
(***************************************************************************)
\* the snapshots the goroutines share: empty, one record, two records, with
\* IDs that overlap between them
ParallelOperands ==
    { [Todos |-> <<>>, NextID |-> 1],
      [Todos |-> << [ID |-> 1, Title |-> "a", Completed |-> FALSE, CreatedAt |-> 0] >>,
       NextID |-> 2],
      [Todos |-> << [ID |-> 1, Title |-> "b", Completed |-> TRUE, CreatedAt |-> 1],
                    [ID |-> 2, Title |-> "a", Completed |-> FALSE, CreatedAt |-> 0] >>,
       NextID |-> 3],
      [Todos |-> << [ID |-> 3, Title |-> "b", Completed |-> TRUE, CreatedAt |-> 1],
                    [ID |-> 2, Title |-> "b", Completed |-> TRUE, CreatedAt |-> 1] >>,
       NextID |-> 4] }

ParallelInit ==
    /\ \E a \in ParallelOperands, b \in ParallelOperands, sa \in Spare :
          LET la == Len(a.Todos)
              lb == Len(b.Todos)
          IN  /\ opC = << Backing(a.Todos, la + sa), Backing(b.Todos, lb) >>
              /\ opA = [Todos |-> [ptr |-> 1, len |-> la, cap |-> la + sa], NextID |-> a.NextID]
              /\ opB = [Todos |-> [ptr |-> 2, len |-> lb, cap |-> lb], NextID |-> b.NextID]
              /\ res = [before |-> opC]
    /\ pc = [p \in Procs |-> "idle"]
    /\ local = [p \in Procs |-> NoLocal]
    /\ resp = [p \in Procs |-> Pending]
    /\ state = NewServer
    /\ RWMutex = Unlocked
    /\ requestsProcessed = 0
    /\ sudoku = NewSudokuServer
    /\ stateMu = Unlocked
    /\ history = <<>>
    /\ accepted = 0
    /\ clock = 0

parallelFrame == <<opA, opB, res, state, RWMutex, requestsProcessed, sudoku, stateMu, history,
                   accepted, clock>>

\* mutant: result reuses the receiver's backing array (s.Todos[:0])
ParallelMergeReusesReceiver(p) ==
    /\ pc[p] = "idle"
    /\ local' = [local EXCEPT ![p] =
            [result |-> [opA.Todos EXCEPT !.len = 0], seen |-> {}, i |-> 1]]
    /\ pc' = [pc EXCEPT ![p] = "Merge_first"]
    /\ UNCHANGED <<opC, resp, parallelFrame>>

\* seen := make(map[int]bool); result := make([]Todo, 0, len+len)
ParallelMergeMake(p) ==
    /\ pc[p] = "idle"
    /\ LET made == Make(opC, 0, opA.Todos.len + opB.Todos.len)
       IN  /\ opC' = made.heap
           /\ local' = [local EXCEPT ![p] = [result |-> made.slice, seen |-> {}, i |-> 1]]
    /\ pc' = [pc EXCEPT ![p] = "Merge_first"]
    /\ UNCHANGED <<resp, parallelFrame>>

\* one turn of a loop of Merge over the slice src: the todo is appended to
\* result unless its ID is in seen; at the end of the slice the goroutine
\* goes on to label next
ParallelMergeLoop(p, src, label, next) ==
    /\ pc[p] = label
    /\ LET l == local[p] IN
        IF l.i > src.len
        THEN /\ pc' = [pc EXCEPT ![p] = next]
             /\ local' = [local EXCEPT ![p].i = 1]
             /\ opC' = opC
        ELSE LET todo == opC[src.ptr][l.i]
                 appended == SliceAppend(opC, l.result, todo)
             IN  /\ pc' = pc
                 /\ IF todo.ID \notin l.seen
                    THEN /\ opC' = appended.heap
                         /\ local' = [local EXCEPT ![p] =
                                [result |-> appended.slice, seen |-> l.seen \cup {todo.ID},
                                 i |-> l.i + 1]]
                    ELSE /\ opC' = opC
                         /\ local' = [local EXCEPT ![p].i = l.i + 1]
    /\ UNCHANGED <<resp, parallelFrame>>

\* for _, todo := range s.Todos
ParallelMergeFirst(p) == ParallelMergeLoop(p, opA.Todos, "Merge_first", "Merge_second")

\* for _, todo := range other.Todos
ParallelMergeSecond(p) == ParallelMergeLoop(p, opB.Todos, "Merge_second", "Merge_return")

\* maxID := max(other.NextID, s.NextID); return TodoState{...}
ParallelMergeReturn(p) ==
    /\ pc[p] = "Merge_return"
    /\ resp' = [resp EXCEPT ![p] =
            [Todos |-> local[p].result, NextID |-> Max(opB.NextID, opA.NextID)]]
    /\ pc' = [pc EXCEPT ![p] = "done"]
    /\ UNCHANGED <<opC, local, parallelFrame>>

ParallelNext ==
    \E p \in Procs :
        \/ ParallelMergeMake(p)
        \/ ParallelMergeFirst(p)
        \/ ParallelMergeSecond(p)
        \/ ParallelMergeReturn(p)

SpecParallel == ParallelInit /\ [][ParallelNext]_vars

\* C27: each of the goroutines that merge the shared snapshots concurrently
\* returns what a sequential Merge of them returns, each in an array of its
\* own, and no array that the shared snapshots live in is ever written.
C27_ParallelMergeIsSequential ==
    /\ \A addr \in DOMAIN res.before : opC[addr] = res.before[addr]
    /\ \A p \in Procs :
          pc[p] = "done" =>
              /\ Deref(opC, resp[p]) = Merge(Deref(res.before, opA), Deref(res.before, opB))
              /\ resp[p].Todos.ptr \notin DOMAIN res.before
              /\ \A q \in Procs :
                    (q # p /\ pc[q] = "done") => resp[q].Todos.ptr # resp[p].Todos.ptr

\* all goroutines have returned a merge of three records from snapshots with
\* a common ID; the second goroutine made its array first and the first
\* goroutine was still in its loops when the second had returned
C27_Witness ==
    /\ \A p \in Procs : pc[p] = "done"
    /\ opA.Todos.len = 2 /\ opB.Todos.len = 2 /\ opA.Todos.cap = 3
    /\ resp[1].Todos.len = 3
    /\ resp[2].Todos.ptr < resp[1].Todos.ptr

(***************************************************************************)
(* faulttest: the goroutines 1..MaxRequests each run some calls of         *)
(* IsolatedOperation(MutateAndPanic(critical, key, value)) on one          *)
(* CriticalState; when all have returned, the test's own goroutine locks   *)
(* the mutex, reads Config and unlocks.  Here state is the CriticalState   *)
(* (Lock is 0 when the mutex is unlocked and else the goroutine holding    *)
(* it), local[p] the arguments of p's call, the calls p has left and the   *)
(* panic it is unwinding, resp[p] what IsolatedOperation returned (for     *)
(* the test's goroutine, the Config it read), and history the goroutine    *)
(* that wrote each key last.                                               *)
(***************************************************************************)
\* how many calls a goroutine makes, one after the other
Calls == 1..2

ChaosKeys == {"key", "key1"}

ChaosValues == {"value", "value_corrupt"}

PanicMessage == "Simulated unexpected failure: Logic error in critical section"

\* the goroutine of the test itself
Main == MaxRequests + 1

\* a Go map as a function on the keys it holds
MapSet(m, key, value) == [k \in DOMAIN m \cup {key} |-> IF k = key THEN value ELSE m[k]]

NewCriticalState == [Config |-> <<>>, Lock |-> 0]

ChaosInit ==
    /\ state = NewCriticalState
    /\ pc = [p \in Procs \cup {Main} |-> IF p = Main THEN "Wait" ELSE "idle"]
    /\ local \in [Procs -> { [key |-> "", value |-> "", left |-> n, panicking |-> ""] :
                              n \in Calls }]
    /\ resp = [p \in Procs \cup {Main} |-> Pending]
    /\ history = <<>>
    /\ LawIdle
    /\ RWMutex = Unlocked
    /\ requestsProcessed = 0
    /\ sudoku = NewSudokuServer
    /\ stateMu = Unlocked
    /\ accepted = 0
    /\ clock = 0

chaosFrame == <<opA, opB, opC, res, RWMutex, requestsProcessed, sudoku, stateMu, accepted, clock>>

\* IsolatedOperation(func() { MutateAndPanic(critical, key, value) })
IsolatedOperation(p, key, value) ==
    /\ pc[p] = "idle"
    /\ local[p].left > 0
    /\ local' = [local EXCEPT ![p].key = key, ![p].value = value]
    /\ pc' = [pc EXCEPT ![p] = "Lock"]
    /\ UNCHANGED <<state, resp, history, chaosFrame>>

\* state.Lock.Lock(); defer state.Lock.Unlock()
MutateAndPanicLock(p) ==
    /\ pc[p] = "Lock"
    /\ state.Lock = 0
    /\ state' = [state EXCEPT !.Lock = p]
    /\ pc' = [pc EXCEPT ![p] = "Write"]
    /\ UNCHANGED <<local, resp, history, chaosFrame>>

\* state.Config[key] = value + "_PARTIAL"
MutateAndPanicWrite(p) ==
    /\ pc[p] = "Write"
    /\ state' = [state EXCEPT
            !.Config = MapSet(@, local[p].key, local[p].value \o "_PARTIAL")]
    /\ history' = MapSet(history, local[p].key, p)
    /\ pc' = [pc EXCEPT ![p] = "Panic"]
    /\ UNCHANGED <<local, resp, chaosFrame>>

\* mutant: the panic leaves MutateAndPanic with no deferred Unlock to run
MutateAndPanicPanicSkipsUnlock(p) ==
    /\ pc[p] = "Panic"
    /\ local' = [local EXCEPT ![p].panicking = PanicMessage]
    /\ pc' = [pc EXCEPT ![p] = "Recover"]
    /\ UNCHANGED <<state, resp, history, chaosFrame>>

\* panic(...): the function is left through its deferred calls
MutateAndPanicPanic(p) ==
    /\ pc[p] = "Panic"
    /\ local' = [local EXCEPT ![p].panicking = PanicMessage]
    /\ pc' = [pc EXCEPT ![p] = "Unlock"]
    /\ UNCHANGED <<state, resp, history, chaosFrame>>

\* mutant: the deferred call also takes the entry out of Config again
MutateAndPanicUnlockRollsBack(p) ==
    /\ pc[p] = "Unlock"
    /\ state' = [Config |-> [k \in DOMAIN state.Config \ {local[p].key} |-> state.Config[k]],
                 Lock |-> 0]
    /\ pc' = [pc EXCEPT ![p] = "Recover"]
    /\ UNCHANGED <<local, resp, history, chaosFrame>>

\* the deferred state.Lock.Unlock()
MutateAndPanicUnlock(p) ==
    /\ pc[p] = "Unlock"
    /\ state' = [state EXCEPT !.Lock = 0]
    /\ pc' = [pc EXCEPT ![p] = "Recover"]
    /\ UNCHANGED <<local, resp, history, chaosFrame>>

\* IsolatedOperation's deferred func: r := recover(); success = false;
\* panicValue = r
IsolatedOperationRecover(p) ==
    /\ pc[p] = "Recover"
    /\ resp' = [resp EXCEPT ![p] = [success |-> FALSE, panicValue |-> local[p].panicking]]
    /\ local' = [local EXCEPT ![p].panicking = "", ![p].left = @ - 1]
    /\ pc' = [pc EXCEPT ![p] = "idle"]
    /\ UNCHANGED <<state, history, chaosFrame>>

AllReturned == \A p \in Procs : pc[p] = "idle" /\ local[p].left = 0

\* wg.Wait() (or <-done), then critical.Lock.Lock()
MainLock ==
    /\ pc[Main] = "Wait"
    /\ AllReturned
    /\ state.Lock = 0
    /\ state' = [state EXCEPT !.Lock = Main]
    /\ pc' = [pc EXCEPT ![Main] = "Read"]
    /\ UNCHANGED <<local, resp, history, chaosFrame>>

\* size := len(critical.Config) and critical.Config["key1"], under the lock
MainRead ==
    /\ pc[Main] = "Read"
    /\ resp' = [resp EXCEPT ![Main] = state.Config]
    /\ pc' = [pc EXCEPT ![Main] = "Unlock"]
    /\ UNCHANGED <<state, local, history, chaosFrame>>

\* critical.Lock.Unlock()
MainUnlock ==
    /\ pc[Main] = "Unlock"
    /\ state' = [state EXCEPT !.Lock = 0]
    /\ pc' = [pc EXCEPT ![Main] = "done"]
    /\ UNCHANGED <<local, resp, history, chaosFrame>>

ChaosNext ==
    \/ \E p \in Procs, key \in ChaosKeys, value \in ChaosValues : IsolatedOperation(p, key, value)
    \/ \E p \in Procs : MutateAndPanicLock(p)
    \/ \E p \in Procs : MutateAndPanicWrite(p)
    \/ \E p \in Procs : MutateAndPanicPanic(p)
    \/ \E p \in Procs : MutateAndPanicUnlock(p)
    \/ \E p \in Procs : IsolatedOperationRecover(p)
    \/ MainLock
    \/ MainRead
    \/ MainUnlock

SpecChaos == ChaosInit /\ [][ChaosNext]_vars

\* every goroutine that can take a step eventually takes one (the Go
\* scheduler runs every runnable goroutine)
SpecChaosLive == SpecChaos /\ WF_vars(ChaosNext)

\* C28: the mutex is held only by a goroutine that is inside MutateAndPanic
\* (or by the test's goroutine between its Lock and Unlock), and under a fair
\* scheduler every call returns and the test's goroutine then acquires and
\* releases the mutex: the run ends with all calls recovered and the mutex
\* unlocked.
C28_PanicReleasesLock ==
    /\ [](\A p \in Procs : (state.Lock = p) <=> (pc[p] \in {"Write", "Panic", "Unlock"}))
    /\ [](\A p \in Procs : pc[p] = "idle" /\ resp[p] # Pending =>
               resp[p] = [success |-> FALSE, panicValue |-> PanicMessage])
    /\ <>[](AllReturned /\ pc[Main] = "done" /\ state.Lock = 0)

\* a goroutine waits at Lock while another one, holding the mutex, is
\* unwinding its panic
C28_WitnessContention ==
    \E p \in Procs, q \in Procs :
        /\ pc[p] = "Lock"
        /\ pc[q] = "Unlock" /\ state.Lock = q /\ local[q].panicking = PanicMessage

\* all calls have panicked and been recovered, both keys were written, and
\* the test's goroutine has locked and unlocked the mutex after them
C28_Witness ==
    /\ AllReturned
    /\ \A p \in Procs : resp[p] = [success |-> FALSE, panicValue |-> PanicMessage]
    /\ pc[Main] = "done"
    /\ state.Lock = 0
    /\ DOMAIN state.Config = ChaosKeys


\* goroutine p's last call has panicked and been recovered, and p has not
\* started another one
Recovered(p) == pc[p] = "idle" /\ resp[p] # Pending

HoldsPartial(config, key, value) == key \in DOMAIN config /\ config[key] = value \o "_PARTIAL"

\* C29 as stated: once a call MutateAndPanic(state, key, value) has been
\* recovered, Config[key] is value followed by _PARTIAL, in every later state.
C29_RecoveredCallLeavesItsValue ==
    \A p \in Procs : Recovered(p) => HoldsPartial(state.Config, local[p].key, local[p].value)

\* C29: once a call MutateAndPanic(state, key, value) has been recovered,
\* Config[key] is value followed by _PARTIAL unless another call has written
\* that key after it; no key once written ever leaves Config, and the test's
\* goroutine, reading under the lock after all calls, finds the same.
C29_PartialWriteStaysUntilOverwritten ==
    /\ \A key \in DOMAIN history :
          \E value \in ChaosValues : HoldsPartial(state.Config, key, value)
    /\ \A p \in Procs :
          (Recovered(p) /\ history[local[p].key] = p) =>
              /\ HoldsPartial(state.Config, local[p].key, local[p].value)
              /\ pc[Main] \in {"Unlock", "done"} =>
                    HoldsPartial(resp[Main], local[p].key, local[p].value)

\* two recovered calls wrote key1 with different values; the test's
\* goroutine has read the later one's value under the lock
C29_Witness ==
    /\ pc[Main] = "done"
    /\ HoldsPartial(resp[Main], "key1", "value_corrupt")
    /\ \E p \in Procs, q \in Procs :
          /\ Recovered(p) /\ local[p].key = "key1" /\ local[p].value = "value_corrupt"
          /\ "key1" \in DOMAIN history /\ history["key1"] = p
          /\ Recovered(q) /\ local[q].key = "key1" /\ local[q].value = "value"


(***************************************************************************)
(* faulttest, immutable State: the goroutines 1..MaxRequests each run      *)
(* IsolatedOperation(func() { _ = base.Set(key, value); panic(...) }) on   *)
(* one base State; when all have returned, the test's goroutine reads the  *)
(* base State and calls Set("safe", "update") on it.  Here opC is the heap *)
(* of maps, state the base State (data is the address of its map),         *)
(* local[p] the arguments of p's Set, its newData map, the keys it has     *)
(* still to copy and the State it returned, resp[p] what                   *)
(* IsolatedOperation returned (for the test's goroutine, what Get("safe")  *)
(* returned), history what the test read from the base State and res the   *)
(* map the base State was made with.                                       *)
(***************************************************************************)
BaseMaps ==
    { [k \in {"initial"} |-> "clean"],
      [k \in {"base"} |-> "state"],
      [k \in {"base", "corrupted"} |-> IF k = "base" THEN "state" ELSE "old"] }

FailingSets == {"corrupted", "base"} \X {"PARTIAL", "value"}

SetPanicMessage == "Simulated failure mid-operation"

NoSet == [key |-> "", value |-> "", newData |-> 0, todo |-> {}, result |-> [data |-> 0],
          panicking |-> ""]

\* NewState(data): the State gets a copy of the map
ImmutableInit ==
    /\ \E data \in BaseMaps :
          /\ opC = << data >>
          /\ res = [before |-> data]
    /\ state = [data |-> 1]
    /\ pc = [p \in Procs \cup {Main} |-> IF p = Main THEN "Wait" ELSE "idle"]
    /\ local = [p \in Procs \cup {Main} |-> NoSet]
    /\ resp = [p \in Procs \cup {Main} |-> Pending]
    /\ history = <<>>
    /\ opA = NoResult
    /\ opB = NoResult
    /\ RWMutex = Unlocked
    /\ requestsProcessed = 0
    /\ sudoku = NewSudokuServer
    /\ stateMu = Unlocked
    /\ accepted = 0
    /\ clock = 0

immutableFrame == <<opA, opB, res, state, RWMutex, requestsProcessed, sudoku, stateMu, accepted,
                    clock>>

\* IsolatedOperation(func() { _ = currentState.Set(key, value); panic(...) })
FailingOperation(p, key, value) ==
    /\ pc[p] = "idle"
    /\ local' = [local EXCEPT ![p].key = key, ![p].value = value]
    /\ pc' = [pc EXCEPT ![p] = "Set_make"]
    /\ UNCHANGED <<opC, resp, history, immutableFrame>>

\* mutant: newData := s.data, the State's own map
StateSetInPlace(p) ==
    /\ pc[p] = "Set_make"
    /\ local' = [local EXCEPT ![p].newData = state.data,
                              ![p].todo = DOMAIN opC[state.data]]
    /\ pc' = [pc EXCEPT ![p] = "Set_copy"]
    /\ UNCHANGED <<opC, resp, history, immutableFrame>>

\* newData := make(map[string]string, len(s.data)+1)
StateSetMake(p) ==
    /\ pc[p] = "Set_make"
    /\ opC' = Append(opC, <<>>)
    /\ local' = [local EXCEPT ![p].newData = Len(opC) + 1,
                              ![p].todo = DOMAIN opC[state.data]]
    /\ pc' = [pc EXCEPT ![p] = "Set_copy"]
    /\ UNCHANGED <<resp, history, immutableFrame>>

\* for k, v := range s.data { newData[k] = v }, one key per step, in any
\* order
StateSetCopy(p) ==
    /\ pc[p] = "Set_copy"
    /\ IF local[p].todo = {}
       THEN /\ pc' = [pc EXCEPT ![p] = "Set_write"]
            /\ UNCHANGED <<opC, local>>
       ELSE \E k \in local[p].todo :
               /\ opC' = [opC EXCEPT ![local[p].newData] = MapSet(@, k, opC[state.data][k])]
               /\ local' = [local EXCEPT ![p].todo = @ \ {k}]
               /\ pc' = pc
    /\ UNCHANGED <<resp, history, immutableFrame>>

\* newData[key] = value; return &State{data: newData}
StateSetWrite(p) ==
    /\ pc[p] = "Set_write"
    /\ opC' = [opC EXCEPT ![local[p].newData] = MapSet(@, local[p].key, local[p].value)]
    /\ local' = [local EXCEPT ![p].result = [data |-> local[p].newData]]
    /\ pc' = [pc EXCEPT ![p] = IF p = Main THEN "Get" ELSE "Panic"]
    /\ UNCHANGED <<resp, history, immutableFrame>>

\* panic("Simulated failure mid-operation"): the State that Set returned is
\* dropped
FailingOperationPanic(p) ==
    /\ pc[p] = "Panic"
    /\ local' = [local EXCEPT ![p].panicking = SetPanicMessage]
    /\ pc' = [pc EXCEPT ![p] = "Recover"]
    /\ UNCHANGED <<opC, resp, history, immutableFrame>>

\* IsolatedOperation's deferred func: r := recover(); success = false;
\* panicValue = r
FailingOperationRecover(p) ==
    /\ pc[p] = "Recover"
    /\ resp' = [resp EXCEPT ![p] = [success |-> FALSE, panicValue |-> local[p].panicking]]
    /\ pc' = [pc EXCEPT ![p] = "done"]
    /\ UNCHANGED <<opC, local, history, immutableFrame>>

\* wg.Wait(); baseState.Len(), baseState.Get(...); then
\* newState := currentState.Set("safe", "update")
MainReadsBase ==
    /\ pc[Main] = "Wait"
    /\ \A p \in Procs : pc[p] = "done"
    /\ history' = [len |-> Cardinality(DOMAIN opC[state.data]), data |-> opC[state.data]]
    /\ local' = [local EXCEPT ![Main].key = "safe", ![Main].value = "update"]
    /\ pc' = [pc EXCEPT ![Main] = "Set_make"]
    /\ UNCHANGED <<opC, resp, immutableFrame>>

\* val, ok := newState.Get("safe")
MainGet ==
    /\ pc[Main] = "Get"
    /\ LET data == opC[local[Main].result.data]
       IN  resp' = [resp EXCEPT ![Main] =
                IF "safe" \in DOMAIN data THEN [val |-> data["safe"], ok |-> TRUE]
                                          ELSE [val |-> "", ok |-> FALSE]]
    /\ pc' = [pc EXCEPT ![Main] = "done"]
    /\ UNCHANGED <<opC, local, history, immutableFrame>>

ImmutableNext ==
    \/ \E p \in Procs, args \in FailingSets : FailingOperation(p, args[1], args[2])
    \/ \E p \in Procs \cup {Main} : StateSetMake(p)
    \/ \E p \in Procs \cup {Main} : StateSetCopy(p)
    \/ \E p \in Procs \cup {Main} : StateSetWrite(p)
    \/ \E p \in Procs : FailingOperationPanic(p)
    \/ \E p \in Procs : FailingOperationRecover(p)
    \/ MainReadsBase
    \/ MainGet

SpecImmutable == ImmutableInit /\ [][ImmutableNext]_vars

\* C30: while and after the goroutines call Set on the base State and panic,
\* the base State's map is the one it was made with; every failing operation
\* is recovered; and the Set("safe", "update") that the test's goroutine
\* makes afterwards returns a State with the base entries and safe = update.
C30_FailedSetLeavesStateUnchanged ==
    /\ opC[state.data] = res.before
    /\ \A p \in Procs :
          pc[p] = "done" => resp[p] = [success |-> FALSE, panicValue |-> SetPanicMessage]
    /\ pc[Main] # "Wait" =>
          history = [len |-> Cardinality(DOMAIN res.before), data |-> res.before]
    /\ pc[Main] = "done" =>
          /\ resp[Main] = [val |-> "update", ok |-> TRUE]
          /\ opC[local[Main].result.data] = MapSet(res.before, "safe", "update")

\* all goroutines have failed, one of them after a Set on a key the base
\* State holds with another value, the second having made its map before the
\* first; the test's goroutine has made its own Set
C30_Witness ==
    /\ pc[Main] = "done"
    /\ \E p \in Procs :
          /\ local[p].key \in DOMAIN res.before
          /\ opC[local[p].newData][local[p].key] # res.before[local[p].key]
    /\ local[1].newData > local[2].newData

\* two goroutines are copying the base State's two entries at the same time
C30_WitnessConcurrent ==
    /\ pc[1] = "Set_copy" /\ pc[2] = "Set_copy"
    /\ Cardinality(local[1].todo) = 1 /\ Cardinality(local[2].todo) = 1


(***************************************************************************)
(* faulttest State.Merge, called on *State and through the ImmutableStore  *)
(* interface.  A State is [data |-> map]; opA, opB and opC are the three   *)
(* states of the law and res holds both groupings, computed on *State and  *)
(* on StateWrapper.                                                        *)
(***************************************************************************)
NilState == [nil |-> TRUE]

\* mutant: a key that both states hold with different values is left out
StateMergeDropsConflict(s, other) ==
    IF other = NilState
    THEN s
    ELSE [data |->
            [k \in { x \in DOMAIN s.data \cup DOMAIN other.data :
                        x \in DOMAIN s.data /\ x \in DOMAIN other.data
                            => s.data[x] = other.data[x] } |->
                IF k \in DOMAIN other.data THEN other.data[k] ELSE s.data[k]]]

\* newData gets every entry of s.data, then every entry of other.data
StateMerge(s, other) ==
    IF other = NilState
    THEN s
    ELSE [data |->
            [k \in DOMAIN s.data \cup DOMAIN other.data |->
                IF k \in DOMAIN other.data THEN other.data[k] ELSE s.data[k]]]

\* otherWrapper, ok := other.(*StateWrapper); merged := sw.state.Merge(...)
StateWrapperMerge(sw, other) ==
    IF "state" \notin DOMAIN other
    THEN sw
    ELSE [state |-> StateMerge(sw.state, other.state)]

FaultKeys == {"a", "b"}

FaultValues == {"1", "2", "3"}

\* NewState(data) for every map over the keys and values
FaultStates ==
    { [data |-> m] : m \in UNION { [keys -> FaultValues] : keys \in SUBSET FaultKeys } }

StateLawInit ==
    /\ ServerInit
    /\ opA \in FaultStates
    /\ opB \in FaultStates
    /\ opC \in FaultStates
    /\ res = NoResult

\* left := a.Merge(b).Merge(c); right := a.Merge(b.Merge(c)), on *State and
\* on StateWrapper
WrapStateMerge ==
    /\ res = NoResult
    /\ LET wa == [state |-> opA]
           wb == [state |-> opB]
           wc == [state |-> opC]
       IN  res' = [left |-> StateMerge(StateMerge(opA, opB), opC),
                   right |-> StateMerge(opA, StateMerge(opB, opC)),
                   wleft |-> StateWrapperMerge(StateWrapperMerge(wa, wb), wc),
                   wright |-> StateWrapperMerge(wa, StateWrapperMerge(wb, wc)),
                   ab |-> StateMerge(opA, opB)]
    /\ UNCHANGED <<opA, opB, opC, serverVars>>

StateLawNext == WrapStateMerge

SpecStateMerge == StateLawInit /\ [][StateLawNext]_vars

\* C31: a.Merge(b).Merge(c) and a.Merge(b.Merge(c)) hold the same keys with
\* the same values, on *State and through the interface, and each key holds
\* the value of the right-most of a, b, c that has it.
C31_StateMergeAssociative ==
    Evaluated =>
        /\ res.left = res.right
        /\ res.wleft = res.wright
        /\ res.wleft.state = res.left
        /\ DOMAIN res.left.data = DOMAIN opA.data \cup DOMAIN opB.data \cup DOMAIN opC.data
        /\ \A k \in DOMAIN res.left.data :
              res.left.data[k] = IF k \in DOMAIN opC.data THEN opC.data[k]
                                 ELSE IF k \in DOMAIN opB.data THEN opB.data[k]
                                 ELSE opA.data[k]

\* all three states hold key a with three different values, and key b is
\* held by the first two only, with different values
C31_Witness ==
    /\ Evaluated
    /\ "a" \in DOMAIN opA.data /\ "a" \in DOMAIN opB.data /\ "a" \in DOMAIN opC.data
    /\ opA.data["a"] = "1" /\ opB.data["a"] = "2" /\ opC.data["a"] = "3"
    /\ "b" \in DOMAIN opA.data /\ "b" \in DOMAIN opB.data /\ "b" \notin DOMAIN opC.data
    /\ opA.data["b"] # opB.data["b"]
    /\ res.left.data["a"] = "3" /\ res.left.data["b"] = opB.data["b"]


(***************************************************************************)
(* config-merge-example: DeepMerge on Config, a map[string]any.  A Config  *)
(* is a function on its keys; a value is [leaf |-> string], or             *)
(* [mapany |-> m] for a map[string]any, or [config |-> m] for a value of   *)
(* the named type Config, which is what DeepMerge stores for a merged      *)
(* nested map and which the type assertion .(map[string]any) rejects.      *)
(***************************************************************************)
IsMapAny(v) == "mapany" \in DOMAIN v

RECURSIVE DeepMerge(_, _)
DeepMerge(a, b) ==
    [k \in DOMAIN a \cup DOMAIN b |->
        IF k \notin DOMAIN b THEN a[k]
        ELSE IF k \in DOMAIN a /\ IsMapAny(a[k]) /\ IsMapAny(b[k])
             THEN [config |-> DeepMerge(a[k].mapany, b[k].mapany)]
             ELSE b[k]]

\* the keys and values of a config, whatever the Go type of its nested maps
RECURSIVE Plain(_)
Plain(c) ==
    [k \in DOMAIN c |->
        IF "leaf" \in DOMAIN c[k] THEN c[k]
        ELSE IF IsMapAny(c[k]) THEN [nested |-> Plain(c[k].mapany)]
        ELSE [nested |-> Plain(c[k].config)]]

ConfigLeaves == { [leaf |-> "1"], [leaf |-> "2"] }

\* map[string]interface{}{ key: value } with up to two keys
NestedMaps ==
    { [mapany |-> m] : m \in UNION { [keys -> ConfigLeaves] : keys \in SUBSET {"x", "y"} } }

\* Config{"nested": ...}, Config{"nested": leaf} and Config{}
Configs ==
    UNION { [keys -> NestedMaps \cup ConfigLeaves] : keys \in SUBSET {"nested"} }

ConfigLawInit ==
    /\ ServerInit
    /\ opA \in Configs
    /\ opB \in Configs
    /\ opC \in Configs
    /\ res = NoResult

\* lawtest.Associative(t, WrapDeepMerge, gen): op(op(a, b), c) and
\* op(a, op(b, c))
WrapDeepMerge ==
    /\ res = NoResult
    /\ res' = [left |-> DeepMerge(DeepMerge(opA, opB), opC),
               right |-> DeepMerge(opA, DeepMerge(opB, opC))]
    /\ UNCHANGED <<opA, opB, opC, serverVars>>

ConfigLawNext == WrapDeepMerge

SpecDeepMerge == ConfigLawInit /\ [][ConfigLawNext]_vars

\* C32: DeepMerge(DeepMerge(a, b), c) and DeepMerge(a, DeepMerge(b, c)) hold
\* the same keys and values, at every level.
C32_DeepMergeAssociative ==
    Evaluated => Plain(res.left) = Plain(res.right)


(***************************************************************************)
(* The stores under concurrent requests.                                   *)
(***************************************************************************)
\* C33: every step of the todo server keeps the records of the store's
\* current snapshot: a record in the store before the step is in the store
\* after it.
C33_StoreIsAppendOnly ==
    [][RecordsOf(state.Todos) \subseteq RecordsOf(state'.Todos)]_vars


\* C34: a store made by a /place handler keeps every non-empty cell of the
\* board it replaces: the cell holds the same value afterwards.
C34_PlaceNeverRewritesCell ==
    [][(\E p \in Procs : HandlePlaceStore(p)) =>
          \A row \in Cells, col \in Cells :
              sudoku.Board[row][col] # 0 =>
                  sudoku'.Board[row][col] = sudoku.Board[row][col]]_vars


\* C35: every cell of the sudoku store's current board holds a value in 0..9.
C35_StoreCellsInDomain ==
    \A row \in Cells, col \in Cells : sudoku.Board[row][col] \in 0..9


(***************************************************************************)
(* The todo server as main starts it, with /add and /verify.               *)
(***************************************************************************)
\* main: NewServerWithIDMultiplier(idMult), 1 for port 8080, 2 for port 8081
MainInit ==
    /\ \E idMult \in {1, 2} : state = NewServerWithIDMultiplier(idMult)
    /\ RWMutex = Unlocked
    /\ requestsProcessed = 0
    /\ sudoku = NewSudokuServer
    /\ stateMu = Unlocked
    /\ pc = [p \in Procs |-> "idle"]
    /\ local = [p \in Procs |-> NoLocal]
    /\ resp = [p \in Procs |-> Pending]
    /\ history = <<>>
    /\ accepted = 0
    /\ clock = 0
    /\ LawIdle

\* consistent := (nextID == len(todos)+1), and false if an ID occurs twice
Consistent(todos, nextID) == nextID = Len(todos) + 1 /\ UniqueIDs(todos)

HandleVerify(p) ==
    /\ Accept(p)
    /\ Goto(p, "HandleVerify")
    /\ local' = [local EXCEPT ![p] = Serve("HandleVerify")]
    /\ resp' = [resp EXCEPT ![p] = Pending]
    /\ UNCHANGED <<todoVars, sudokuVars, history, clock>>

HandleVerifyRLock(p) ==
    /\ pc[p] = "HandleVerify"
    /\ CanRLock(RWMutex)
    /\ RWMutex' = RLock(RWMutex, p)
    /\ local' = [local EXCEPT ![p].rlocks = @ + 1]
    /\ Goto(p, "HandleVerify_read")
    /\ UNCHANGED <<state, requestsProcessed, sudokuVars, resp, history, accepted, clock>>

\* todos := s.state.Todos; nextID := s.state.NextID
HandleVerifyRead(p) ==
    /\ pc[p] = "HandleVerify_read"
    /\ local' = [local EXCEPT ![p].todos = state.Todos, ![p].nextID = state.NextID]
    /\ Goto(p, "HandleVerify_RUnlock")
    /\ UNCHANGED <<todoVars, sudokuVars, resp, history, accepted, clock>>

\* s.RUnlock(), then consistent is computed and the response written
HandleVerifyRUnlock(p) ==
    /\ pc[p] = "HandleVerify_RUnlock"
    /\ RWMutex' = RUnlock(RWMutex, p)
    /\ Return(p, [ status |-> 200,
                   consistent |-> Consistent(local[p].todos, local[p].nextID),
                   todo_count |-> Len(local[p].todos), next_id |-> local[p].nextID,
                   expected_next_id |-> Len(local[p].todos) + 1 ])
    /\ UNCHANGED <<state, requestsProcessed, sudokuVars, history, accepted, clock>>

MainNext ==
    \E p \in Procs :
        \/ \E method \in Methods, body \in AddBodies : HandleAdd(p, method, body)
        \/ ProcessRequestRLock(p)
        \/ ProcessRequestRead(p)
        \/ ProcessRequestRUnlock(p)
        \/ ProcessRequestAdd(p)
        \/ ProcessRequestLock(p)
        \/ ProcessRequestStore(p)
        \/ ProcessRequestUnlock(p)
        \/ ProcessRequestReturn(p)
        \/ HandleVerify(p)
        \/ HandleVerifyRLock(p)
        \/ HandleVerifyRead(p)
        \/ HandleVerifyRUnlock(p)

SpecMain == MainInit /\ [][MainNext]_vars

\* C36: every /verify answered by a todo server that main started reports
\* consistent = true.
C36_VerifyReportsConsistent ==
    \A p \in Procs :
        (local[p].handler = "HandleVerify" /\ pc[p] = "done") => resp[p].consistent


(***************************************************************************)
(* IDs in the snapshots the replicas reach, checked under SpecReplicas.    *)
(***************************************************************************)
WellNumbered(s) == UniqueIDs(s.Todos) /\ \A id \in IDsOf(s.Todos) : id < s.NextID

\* C37: in every snapshot a replica holds or has stored, reached from its
\* construction through Add and through Merge with the peer's snapshots, no
\* ID occurs twice and every ID is below NextID; the ID an Add issued was
\* not in the snapshot it extended.
C37_ReachableSnapshotsWellNumbered ==
    /\ \A k \in Replicas : WellNumbered(state[k])
    /\ \A i \in DOMAIN history : WellNumbered(history[i].snap)
    /\ \A i \in Adds : history[i].todo.ID \notin IDsOf(history[i].pre.Todos)

\* a replica that held a record of its own merged a peer's snapshot with
\* records and then added a todo to the merged snapshot
C37_Witness ==
    \E i \in Adds, j \in Merges :
        /\ j < i
        /\ history[i].srv = history[j].srv
        /\ Len(history[j].pre.Todos) > 0
        /\ Len(history[j].incoming.Todos) > 0
        /\ history[i].pre = history[j].snap
        /\ Len(history[i].snap.Todos) >= 3


(***************************************************************************)
(* Concurrent /add requests on the todo server, checked under Spec.        *)
(***************************************************************************)
\* the goroutines whose /add request has returned success
AddsReturned ==
    { p \in Procs : local[p].handler = "HandleAdd" /\ pc[p] = "done" /\ resp[p].status = 200 }

\* no request is being served and no /merge has touched the todo store
OnlyAddsServed ==
    \A p \in Procs : pc[p] \in {"idle", "done"} /\ local[p].handler # "HandleMerge"

\* C38: when the /add requests sent to a fresh todo server have all returned,
\* the store holds one record for each request that returned success, the
\* todo returned to its client, and RequestsProcessed counts them.
C38_EveryReturnedAddIsStored ==
    OnlyAddsServed =>
        /\ Len(state.Todos) = Cardinality(AddsReturned)
        /\ \A p \in AddsReturned : resp[p].todo \in RecordsOf(state.Todos)
        /\ requestsProcessed = Cardinality(AddsReturned)


(***************************************************************************)
(* Termination of the handlers of Spec under a fair scheduler.             *)
(***************************************************************************)
\* a step of a handler that is being served (accepting a request is the
\* client's step)
ServerStep == Next /\ accepted' = accepted

\* the Go scheduler runs every goroutine that can run: weak fairness of the
\* handlers' steps, written out.  Every step of a handler moves its goroutine
\* to another statement, so the steps of Spec that change pc and leave
\* accepted alone are the handlers' steps.
SpecLive ==
    Spec /\ ([]<>(~ENABLED ServerStep) \/ []<><<accepted' = accepted>>_pc)

\* the statements at which a handler asks for the read or the write lock
AcquireLabels ==
    { "ProcessRequest", "HandleMerge", "HandleRoot", "HandleExport", "HandlePlace",
      "SudokuHandleMerge", "SudokuHandleExport",
      "ProcessRequest_Lock", "HandleMerge_Lock", "HandlePlace_Lock", "SudokuHandleMerge_Lock" }

\* C39: a handler that asks for a lock holds none, a handler that has
\* returned holds none, some handler can always step while a request is
\* being served, and under a fair scheduler every request accepted returns.
C39_EveryRequestTerminates ==
    /\ [](\A p \in Procs : pc[p] \in AcquireLabels \cup {"done"} => ~HoldsAny(p))
    /\ []((\E p \in Procs : pc[p] \notin {"idle", "done"}) => ENABLED ServerStep)
    /\ \A p \in Procs : (pc[p] # "idle") ~> (pc[p] = "done")

\* two requests that both stored to the same store have returned, the one
\* accepted first having stored last
C39_Witness ==
    /\ \A p \in Procs : pc[p] = "done" /\ ~HoldsAny(p)
    /\ \E i, j \in DOMAIN history :
          /\ i < j
          /\ history[i].ev = "store" /\ history[j].ev = "store"
          /\ history[i].srv = history[j].srv
          /\ history[i].p > history[j].p

====
